---- MODULE Spec2Model ----
(***************************************************************************)
(* Payroll import of adhik999/BVIT-SALARY-SLIP: PaysheetImporter           *)
(* (src/js/paysheet-importer.js), the FirebaseDB and GoogleSheetsDB        *)
(* adapters (src/js/google-sheets-db.js) and TeacherPayAPI                 *)
(* (src/js/api-client.js).                                                 *)
(*                                                                         *)
(* JavaScript strings are sequences of one-character strings, so that      *)
(* trim, split, includes, replace and parseFloat are computed, character   *)
(* by character, as the engine computes them.  JavaScript numbers are      *)
(* records [k, v, d]: k = "fin" is the decimal v / 10^d (normalised: d = 0 *)
(* or v not divisible by 10), k = "inf" is v * Infinity (v = 1 or -1),     *)
(* k = "nan" is NaN, k = "null" is the JSON null that JSON.stringify       *)
(* writes for a non-finite number.                                         *)
(***************************************************************************)
EXTENDS Integers, Sequences, FiniteSets, TLC

VARIABLES
    file,       \* the File handed to importPaysheetFile: [name, text]
    month,      \* the month argument (a string)
    year,       \* the year argument (a string)
    env,        \* the page: which globals are loaded, firebase.apps.length
    adapter,    \* a FirebaseDB object the page constructed: [initialized, returned]
    pc,         \* position of the running importPaysheetFile call
    calls,      \* number of importPaysheetFile calls started
    clock,      \* the instant new Date() reads
    parsedData, \* the grid (parsedData, line 116) of the running call
    processed,  \* processedData of the primary attempt (line 140)
    paysheet,   \* paysheetData of the primary attempt (lines 141-158)
    slipIdx,    \* index of the record whose slip write is awaited (line 167)
    warnings,   \* the columns validatePaysheetData warned about in this call
    primaryLog, \* the writes this call issued against the Firebase database
    localLog,   \* the localStorage.setItem calls of this call: [key, ok]
    fbPaysheets,\* Firebase: paysheets/{key}
    fbSlips,    \* Firebase: salarySlips/{slipId}
    localStorage, \* localStorage: key -> stored JSON text (as its parsed value)
    results,    \* the values the running call has returned (at most one)
    normOut,    \* result of a direct processDataForLocalStorage call
    api,        \* window.teacherPayAPI: [initialized, returned]
    sheets,     \* a GoogleSheetsDB object: [configured, initialized,
                \* isInitialized, returned]
    monthOut,   \* results of direct getMonthNumber calls, by class
    parseOut,   \* result of a direct parseCSV call
    listeners,  \* FirebaseDB.listeners: the Map of registry key -> listener
    attached,   \* the 'value' listeners attached to the Realtime Database:
                \* [key, at, fn], key being the registry key the operation
                \* that attached fn stored it under
    nextListener, \* arrow functions the get* operations have created
    teachersSheet, \* the Teachers sheet of the spreadsheet: [exists, rows]
    fbTeachers, \* Firebase: teachers/{id}
    opOut       \* how the latest data operation of an adapter ended

vars == <<file, month, year, env, adapter, pc, calls, clock, parsedData,
          processed, paysheet, slipIdx, warnings, primaryLog, localLog,
          fbPaysheets, fbSlips, localStorage, results, normOut, api, sheets,
          monthOut, parseOut, listeners, attached, nextListener,
          teachersSheet, fbTeachers, opOut>>

\* the state of the importer and of the adapters' initialize methods
coreVars == <<file, month, year, env, adapter, pc, calls, clock, parsedData,
              processed, paysheet, slipIdx, warnings, primaryLog, localLog,
              fbPaysheets, fbSlips, localStorage, results, normOut, api,
              sheets>>

\* the state importPaysheetFile and the initialize methods never touch
sideVars == <<monthOut, parseOut, listeners, attached, nextListener,
              teachersSheet, fbTeachers, opOut>>

\* the state of the adapters' data operations
dataVars == <<listeners, attached, nextListener, teachersSheet, fbTeachers,
              opOut>>

----------------------------------------------------------------------------
(* Bounds of the model *)

\* data rows of an imported CSV file
MaxRows == 2
\* importPaysheetFile calls in one run
MaxImports == 1
\* clock ticks that share one calendar date
TicksPerDay == 4
\* arrow functions the listener operations of FirebaseDB create in one run
MaxListeners == 3
\* rows of the Teachers sheet
MaxSheetRows == 3

----------------------------------------------------------------------------
(* JavaScript strings *)

UpperLetters == <<"A","B","C","D","E","F","G","H","I","J","K","L","M",
                  "N","O","P","Q","R","S","T","U","V","W","X","Y","Z">>
LowerLetters == <<"a","b","c","d","e","f","g","h","i","j","k","l","m",
                  "n","o","p","q","r","s","t","u","v","w","x","y","z">>
Digits == <<"0","1","2","3","4","5","6","7","8","9">>

IsSpace(c) == c \in {" ", "\t", "\n", "\r"}
IsDigit(c) == \E i \in 1..10 : Digits[i] = c
DigitVal(c) == (CHOOSE i \in 1..10 : Digits[i] = c) - 1

LowerChar(c) ==
    IF \E i \in 1..26 : UpperLetters[i] = c
    THEN LowerLetters[CHOOSE i \in 1..26 : UpperLetters[i] = c]
    ELSE c

toLowerCase(s) == [i \in 1..Len(s) |-> LowerChar(s[i])]

RECURSIVE trimStart(_)
trimStart(s) ==
    IF Len(s) > 0 /\ IsSpace(s[1]) THEN trimStart(Tail(s)) ELSE s

RECURSIVE trimEnd(_)
trimEnd(s) ==
    IF Len(s) > 0 /\ IsSpace(s[Len(s)])
    THEN trimEnd(SubSeq(s, 1, Len(s) - 1)) ELSE s

trim(s) == trimEnd(trimStart(s))

includes(s, t) ==
    \E i \in 0..(Len(s) - Len(t)) : SubSeq(s, i + 1, i + Len(t)) = t

endsWith(s, t) ==
    Len(s) >= Len(t) /\ SubSeq(s, Len(s) - Len(t) + 1, Len(s)) = t

RECURSIVE split(_, _)
split(s, sep) ==
    IF \A i \in 1..Len(s) : s[i] # sep
    THEN <<s>>
    ELSE LET i == CHOOSE k \in 1..Len(s) :
                      s[k] = sep /\ \A j \in 1..(k - 1) : s[j] # sep
         IN  <<SubSeq(s, 1, i - 1)>> \o split(SubSeq(s, i + 1, Len(s)), sep)

RECURSIVE join(_, _)
join(rows, sep) ==
    IF Len(rows) = 0 THEN <<>>
    ELSE IF Len(rows) = 1 THEN rows[1]
    ELSE rows[1] \o <<sep>> \o join(Tail(rows), sep)

RECURSIVE IntToStr(_)
IntToStr(n) ==
    IF n < 10 THEN <<Digits[n + 1]>>
    ELSE IntToStr(n \div 10) \o <<Digits[(n % 10) + 1]>>

\* cell.replace(/^"|"$/g, ''): a leading quote and a trailing quote are each
\* removed when present
stripQuotes(s) ==
    LET a == IF Len(s) > 0 /\ s[1] = "\"" THEN Tail(s) ELSE s
    IN  IF Len(a) > 0 /\ a[Len(a)] = "\"" THEN SubSeq(a, 1, Len(a) - 1) ELSE a

\* s.replace(/[\s\-_\.]/g, '')
stripSeparators(s) ==
    SelectSeq(s, LAMBDA c : ~(IsSpace(c) \/ c \in {"-", "_", "."}))

----------------------------------------------------------------------------
(* JavaScript numbers *)

RECURSIVE NormDec(_, _)
NormDec(v, d) ==
    IF d > 0 /\ v % 10 = 0 THEN NormDec(v \div 10, d - 1)
    ELSE [k |-> "fin", v |-> v, d |-> d]

Num(n) == [k |-> "fin", v |-> n, d |-> 0]
NaN == [k |-> "nan", v |-> 0, d |-> 0]
Infinity(sign) == [k |-> "inf", v |-> sign, d |-> 0]
JsonNull == [k |-> "null", v |-> 0, d |-> 0]

RECURSIVE Pow10(_)
Pow10(n) == IF n = 0 THEN 1 ELSE 10 * Pow10(n - 1)

isFinite(x) == x.k = "fin"

\* x + y of the reduce() calls that build the summary
Add(x, y) ==
    IF x.k = "nan" \/ y.k = "nan" THEN NaN
    ELSE IF x.k = "inf" /\ y.k = "inf"
         THEN IF x.v = y.v THEN x ELSE NaN
    ELSE IF x.k = "inf" THEN x
    ELSE IF y.k = "inf" THEN y
    ELSE LET d == IF x.d > y.d THEN x.d ELSE y.d
         IN  NormDec(x.v * Pow10(d - x.d) + y.v * Pow10(d - y.d), d)

\* the length of the longest prefix of s made of digits
RECURSIVE DigitRun(_)
DigitRun(s) ==
    IF Len(s) > 0 /\ IsDigit(s[1]) THEN 1 + DigitRun(Tail(s)) ELSE 0

RECURSIVE DigitsVal(_)
DigitsVal(s) ==
    IF Len(s) = 0 THEN 0
    ELSE DigitsVal(SubSeq(s, 1, Len(s) - 1)) * 10 + DigitVal(s[Len(s)])

Drop(s, n) == SubSeq(s, n + 1, Len(s))

startsWith(s, t) == Len(s) >= Len(t) /\ SubSeq(s, 1, Len(t)) = t

\* parseFloat, last step: the value of the decimal literal whose digits
\* (integer and fraction digits together) are ds, with nf fraction digits
\* and exponent ex
decimalValue(ds, nf, ex, sign) ==
    IF DigitsVal(ds) = 0 THEN Num(0)
    ELSE IF ex > 308 THEN Infinity(sign)
    ELSE IF ex >= nf THEN NormDec(sign * DigitsVal(ds) * Pow10(ex - nf), 0)
    ELSE NormDec(sign * DigitsVal(ds), nf - ex)

\* parseFloat, the exponent digits: s follows the exponent sign; without a
\* digit there the literal ends before the 'e'
parseExponentDigits(ds, nf, esign, s, sign) ==
    decimalValue(ds, nf, esign * DigitsVal(SubSeq(s, 1, DigitRun(s))), sign)

\* parseFloat, the exponent part: s follows the mantissa
parseExponent(ds, nf, s, sign) ==
    IF Len(ds) = 0 THEN NaN
    ELSE IF Len(s) > 1 /\ s[1] \in {"e", "E"}
         THEN parseExponentDigits(ds, nf,
                  IF s[2] = "-" THEN -1 ELSE 1,
                  IF s[2] \in {"+", "-"} THEN Drop(s, 2) ELSE Tail(s), sign)
         ELSE decimalValue(ds, nf, 0, sign)

\* parseFloat, the fraction: s follows the integer digits
parseFraction(intDigits, s, sign) ==
    IF Len(s) > 0 /\ s[1] = "."
    THEN parseExponent(intDigits \o SubSeq(s, 2, 1 + DigitRun(Tail(s))),
                       DigitRun(Tail(s)), Drop(s, 1 + DigitRun(Tail(s))), sign)
    ELSE parseExponent(intDigits, 0, s, sign)

\* parseFloat after the sign
parseUnsigned(s, sign) ==
    IF startsWith(s, <<"I","n","f","i","n","i","t","y">>) THEN Infinity(sign)
    ELSE parseFraction(SubSeq(s, 1, DigitRun(s)), Drop(s, DigitRun(s)), sign)

\* parseFloat after the leading white space
parseSigned(s) ==
    parseUnsigned(IF Len(s) > 0 /\ s[1] \in {"+", "-"} THEN Tail(s) ELSE s,
                  IF Len(s) > 0 /\ s[1] = "-" THEN -1 ELSE 1)

\* parseFloat(string): leading white space, an optional sign, then
\* "Infinity" or the longest decimal literal (digits, fraction, exponent);
\* NaN when there is none
parseFloat(str) == parseSigned(trimStart(str))

\* x || 0 on a number: NaN and 0 are falsy
OrZero(x) == IF x.k = "nan" \/ (x.k = "fin" /\ x.v = 0) THEN Num(0) ELSE x

----------------------------------------------------------------------------
(* PaysheetImporter: parsing and validation *)

\* one row of parseCSV: line.split(',').map(cell => cell.trim().replace(...))
parseCSVLine(line) ==
    LET cells == split(line, ",")
    IN  [i \in 1..Len(cells) |-> stripQuotes(trim(cells[i]))]

RECURSIVE parseCSVLines(_)
parseCSVLines(lines) ==
    IF Len(lines) = 0 THEN <<>>
    ELSE IF Len(trim(lines[1])) > 0
         THEN <<parseCSVLine(lines[1])>> \o parseCSVLines(Tail(lines))
         ELSE parseCSVLines(Tail(lines))

parseCSV(csvContent) == parseCSVLines(split(csvContent, "\n"))

requiredColumns ==
    << [name |-> "Teacher ID",
        patterns |-> << <<"t","e","a","c","h","e","r","_","i","d">>, <<"t","e","a","c","h","e","r","i","d">>, <<"i","d">>, <<"e","m","p","_","i","d">>,
                        <<"e","m","p","l","o","y","e","e","_","i","d">>, <<"s","t","a","f","f","_","i","d">> >>],
       [name |-> "Teacher Name",
        patterns |-> << <<"t","e","a","c","h","e","r","_","n","a","m","e">>, <<"t","e","a","c","h","e","r","n","a","m","e">>, <<"n","a","m","e">>,
                        <<"e","m","p","l","o","y","e","e","_","n","a","m","e">>, <<"s","t","a","f","f","_","n","a","m","e">>, <<"f","u","l","l","_","n","a","m","e">> >>],
       [name |-> "Basic Salary",
        patterns |-> << <<"b","a","s","i","c","_","s","a","l","a","r","y">>, <<"b","a","s","i","c","s","a","l","a","r","y">>, <<"b","a","s","i","c">>,
                        <<"b","a","s","e","_","s","a","l","a","r","y">>, <<"s","a","l","a","r","y">> >>] >>

\* headers.map(h => h.toLowerCase().replace(/[\s\-_\.]/g, '').trim())
normalizeHeader(h) == trim(stripSeparators(toLowerCase(h)))

\* the `found` test of validatePaysheetData for one required column
columnFound(required, headers) ==
    \E h \in 1..Len(headers) : \E p \in 1..Len(required.patterns) :
        LET header  == normalizeHeader(headers[h])
            pattern == stripSeparators(required.patterns[p])
        IN  includes(header, pattern) \/ includes(pattern, header)

\* validatePaysheetData that throws where the code only warns
validateThrows_strict(data) ==
    \/ Len(data) < 2
    \/ \E r \in 1..Len(requiredColumns) : ~columnFound(requiredColumns[r], data[1])

\* does validatePaysheetData throw 'File must contain at least header row
\* and one data row'
validateThrows(data) == Len(data) < 2

\* the names of the recommended columns validatePaysheetData warns about
validateWarnings(data) ==
    { requiredColumns[r].name : r \in
        { q \in 1..Len(requiredColumns) :
            ~columnFound(requiredColumns[q], data[1]) } }

\* the property names every object literal inherits from Object.prototype
ObjectPrototypeNames ==
    { <<"c","o","n","s","t","r","u","c","t","o","r">>, <<"t","o","S","t","r","i","n","g">>, <<"t","o","L","o","c","a","l","e","S","t","r","i","n","g">>, <<"v","a","l","u","e","O","f">>,
      <<"h","a","s","O","w","n","P","r","o","p","e","r","t","y">>, <<"i","s","P","r","o","t","o","t","y","p","e","O","f">>, <<"p","r","o","p","e","r","t","y","I","s","E","n","u","m","e","r","a","b","l","e">>,
      <<"_","_","p","r","o","t","o","_","_">>, <<"_","_","d","e","f","i","n","e","G","e","t","t","e","r","_","_">>, <<"_","_","d","e","f","i","n","e","S","e","t","t","e","r","_","_">>,
      <<"_","_","l","o","o","k","u","p","G","e","t","t","e","r","_","_">>, <<"_","_","l","o","o","k","u","p","S","e","t","t","e","r","_","_">> }

\* months[monthName] for an inherited name: a function (or the prototype
\* object), which is truthy, so `|| '01'` does not apply
InheritedValue == <<"function">>

\* PaysheetImporter.getMonthNumber: months[monthName] || '01'
getMonthNumber(monthName) ==
    CASE monthName = <<"J","a","n","u","a","r","y">>   -> <<"0","1">>
      [] monthName = <<"F","e","b","r","u","a","r","y">>  -> <<"0","2">>
      [] monthName = <<"M","a","r","c","h">>     -> <<"0","3">>
      [] monthName = <<"A","p","r","i","l">>     -> <<"0","4">>
      [] monthName = <<"M","a","y">>       -> <<"0","5">>
      [] monthName = <<"J","u","n","e">>      -> <<"0","6">>
      [] monthName = <<"J","u","l","y">>      -> <<"0","7">>
      [] monthName = <<"A","u","g","u","s","t">>    -> <<"0","8">>
      [] monthName = <<"S","e","p","t","e","m","b","e","r">> -> <<"0","9">>
      [] monthName = <<"O","c","t","o","b","e","r">>   -> <<"1","0">>
      [] monthName = <<"N","o","v","e","m","b","e","r">>  -> <<"1","1">>
      [] monthName = <<"D","e","c","e","m","b","e","r">>  -> <<"1","2">>
      [] monthName \in ObjectPrototypeNames -> InheritedValue
      [] OTHER -> <<"0","1">>

\* GoogleSheetsDB.getMonthNumber
GoogleSheetsDB_getMonthNumber(monthName) ==
    CASE monthName = <<"J","a","n","u","a","r","y">>   -> <<"0","1">>
      [] monthName = <<"F","e","b","r","u","a","r","y">>  -> <<"0","2">>
      [] monthName = <<"M","a","r","c","h">>     -> <<"0","3">>
      [] monthName = <<"A","p","r","i","l">>     -> <<"0","4">>
      [] monthName = <<"M","a","y">>       -> <<"0","5">>
      [] monthName = <<"J","u","n","e">>      -> <<"0","6">>
      [] monthName = <<"J","u","l","y">>      -> <<"0","7">>
      [] monthName = <<"A","u","g","u","s","t">>    -> <<"0","8">>
      [] monthName = <<"S","e","p","t","e","m","b","e","r">> -> <<"0","9">>
      [] monthName = <<"O","c","t","o","b","e","r">>   -> <<"1","0">>
      [] monthName = <<"N","o","v","e","m","b","e","r">>  -> <<"1","1">>
      [] monthName = <<"D","e","c","e","m","b","e","r">>  -> <<"1","2">>
      [] monthName \in ObjectPrototypeNames -> InheritedValue
      [] OTHER -> <<"0","1">>

\* FirebaseDB.getMonthNumber
FirebaseDB_getMonthNumber(monthName) ==
    CASE monthName = <<"J","a","n","u","a","r","y">>   -> <<"0","1">>
      [] monthName = <<"F","e","b","r","u","a","r","y">>  -> <<"0","2">>
      [] monthName = <<"M","a","r","c","h">>     -> <<"0","3">>
      [] monthName = <<"A","p","r","i","l">>     -> <<"0","4">>
      [] monthName = <<"M","a","y">>       -> <<"0","5">>
      [] monthName = <<"J","u","n","e">>      -> <<"0","6">>
      [] monthName = <<"J","u","l","y">>      -> <<"0","7">>
      [] monthName = <<"A","u","g","u","s","t">>    -> <<"0","8">>
      [] monthName = <<"S","e","p","t","e","m","b","e","r">> -> <<"0","9">>
      [] monthName = <<"O","c","t","o","b","e","r">>   -> <<"1","0">>
      [] monthName = <<"N","o","v","e","m","b","e","r">>  -> <<"1","1">>
      [] monthName = <<"D","e","c","e","m","b","e","r">>  -> <<"1","2">>
      [] monthName \in ObjectPrototypeNames -> InheritedValue
      [] OTHER -> <<"0","1">>

----------------------------------------------------------------------------
(* PaysheetImporter.processDataForLocalStorage *)

\* the else-if chain of lines 292-334: the field a header names, or "none"
headerField(header) ==
    LET h == trim(toLowerCase(header))
        has(t) == includes(h, t)
    IN  CASE has(<<"t","e","a","c","h","e","r">>) /\ has(<<"i","d">>)        -> "teacherId"
          [] has(<<"n","a","m","e">>) /\ has(<<"s","t","a","f","f">>)        -> "teacherName"
          [] has(<<"d","e","s","i","g","n","a","t","i","o","n">>)                    -> "designation"
          [] has(<<"q","u","a","l","i","f","i","c","a","t","i","o","n">>)                  -> "qualification"
          [] has(<<"p","a","y"," ","s","c","a","l","e">>) \/ has(<<"p","a","y","s","c","a","l","e">>) -> "payScale"
          [] has(<<"p","a","y">>) /\ has(<<"b","a","n","d">>)          -> "payBand"
          [] has(<<"a",".","g",".","p">>) \/ has(<<"a","g","p">>)         -> "agp"
          [] has(<<"r","e","v","i","s","e","d">>) /\ has(<<"b","a","s","i","c">>)     -> "revisedBasicPay"
          [] has(<<"d",".","a">>) /\ has(<<"1","5","0">>)           -> "da150"
          [] has(<<"h",".","r",".","a">>) /\ has(<<"3","0">>)          -> "hra30"
          [] has(<<"c",".","l",".","a">>)                          -> "cla"
          [] has(<<"a","d","d">>) /\ has(<<"a","l","l","o","w","a","n","c","e">>)     -> "addAllowance"
          [] has(<<"g","r","o","s","s">>) /\ has(<<"t","o","t","a","l">>)       -> "grossTotal"
          [] has(<<"p","r","o","f">>) /\ has(<<"t","a","x">>)          -> "profTax"
          [] has(<<"i","n","c","o","m","e">>) /\ has(<<"t","a","x">>)        -> "incomeTax"
          [] has(<<"p",".","f">>) \/ h = <<"p","f">>             -> "pf"
          [] has(<<"l","i","c">>)                            -> "lic"
          [] has(<<"m","e","d","i","c","a","l">>) /\ has(<<"i","n","s","u","r">>)     -> "medicalInsurance"
          [] has(<<"e","w">>) /\ has(<<"f","u","n","d">>)           -> "ewFund"
          [] has(<<"t","o","t","a","l">>) /\ has(<<"d","e","d","u","c","t","i","o","n">>)   -> "totalDeductions"
          [] has(<<"n","e","t">>) /\ has(<<"p","a","y">>)           -> "netPay"
          [] OTHER -> "none"

MappedFields ==
    {"teacherId", "teacherName", "designation", "qualification", "payScale",
     "payBand", "agp", "revisedBasicPay", "da150", "hra30", "cla",
     "addAllowance", "grossTotal", "profTax", "incomeTax", "pf", "lic",
     "medicalInsurance", "ewFund", "totalDeductions", "netPay"}

\* an absent property of columnMap (undefined); column indices count from 0
Unmapped == -1

\* headers.forEach((header, index) => ...): each matching header assigns
\* columnMap[field] = index, in column order
RECURSIVE buildColumnMap(_, _, _)
buildColumnMap(headers, index, columnMap) ==
    IF index >= Len(headers) THEN columnMap
    ELSE LET f == headerField(headers[index + 1])
         IN  buildColumnMap(headers, index + 1,
                 IF f = "none" THEN columnMap
                 ELSE [columnMap EXCEPT ![f] = index])

columnMapOf(headers) ==
    buildColumnMap(headers, 0, [f \in MappedFields |-> Unmapped])

\* is row[col] a defined value
hasCell(row, col) == col >= 0 /\ col < Len(row)

\* row[col] || '' : an absent cell and the empty cell both give ''
textCell(row, col) == IF hasCell(row, col) THEN row[col + 1] ELSE <<>>

\* numberCell without the `|| 0` for a cell that is absent
numberCell_nanKept(row, col) ==
    IF hasCell(row, col) THEN OrZero(parseFloat(row[col + 1])) ELSE NaN

\* parseFloat(row[col]) || 0 : parseFloat(undefined) is NaN
numberCell(row, col) ==
    OrZero(IF hasCell(row, col) THEN parseFloat(row[col + 1]) ELSE NaN)

\* new Date().toISOString().split('T')[0]: the calendar date of an instant
isoDate(t) == t \div TicksPerDay

\* makeRecord with netPay recomputed as the gross total and the legacy
\* grossSalary read from the net pay column
makeRecord_recomputed(row, i, columnMap, m, y, now) ==
    [ id |-> (IF Len(textCell(row, columnMap.teacherId)) > 0
              THEN row[columnMap.teacherId + 1] ELSE IntToStr(i))
             \o <<"_">> \o m \o <<"_">> \o y,
      teacherId        |-> textCell(row, columnMap.teacherId),
      teacherName      |-> textCell(row, columnMap.teacherName),
      designation      |-> textCell(row, columnMap.designation),
      qualification    |-> textCell(row, columnMap.qualification),
      payScale         |-> textCell(row, columnMap.payScale),
      payBand          |-> textCell(row, columnMap.payBand),
      agp              |-> numberCell(row, columnMap.agp),
      revisedBasicPay  |-> numberCell(row, columnMap.revisedBasicPay),
      da150            |-> numberCell(row, columnMap.da150),
      hra30            |-> numberCell(row, columnMap.hra30),
      cla              |-> numberCell(row, columnMap.cla),
      addAllowance     |-> numberCell(row, columnMap.addAllowance),
      grossTotal       |-> numberCell(row, columnMap.grossTotal),
      profTax          |-> numberCell(row, columnMap.profTax),
      incomeTax        |-> numberCell(row, columnMap.incomeTax),
      pf               |-> numberCell(row, columnMap.pf),
      lic              |-> numberCell(row, columnMap.lic),
      medicalInsurance |-> numberCell(row, columnMap.medicalInsurance),
      ewFund           |-> numberCell(row, columnMap.ewFund),
      totalDeductions  |-> numberCell(row, columnMap.totalDeductions),
      netPay           |-> numberCell(row, columnMap.grossTotal),
      basicSalary      |-> numberCell(row, columnMap.revisedBasicPay),
      da               |-> numberCell(row, columnMap.da150),
      hra              |-> numberCell(row, columnMap.hra30),
      allowances       |-> numberCell(row, columnMap.addAllowance),
      grossSalary      |-> numberCell(row, columnMap.netPay),
      payDate          |-> isoDate(now),
      status           |-> "paid",
      month            |-> m,
      year             |-> y,
      monthNum         |-> getMonthNumber(m),
      createdAt        |-> now ]

\* the record literal of lines 345-392 for data row i (row ordinal, from 1)
makeRecord(row, i, columnMap, m, y, now) ==
    [ id |-> (IF Len(textCell(row, columnMap.teacherId)) > 0
              THEN row[columnMap.teacherId + 1] ELSE IntToStr(i))
             \o <<"_">> \o m \o <<"_">> \o y,
      teacherId        |-> textCell(row, columnMap.teacherId),
      teacherName      |-> textCell(row, columnMap.teacherName),
      designation      |-> textCell(row, columnMap.designation),
      qualification    |-> textCell(row, columnMap.qualification),
      payScale         |-> textCell(row, columnMap.payScale),
      payBand          |-> textCell(row, columnMap.payBand),
      agp              |-> numberCell(row, columnMap.agp),
      revisedBasicPay  |-> numberCell(row, columnMap.revisedBasicPay),
      da150            |-> numberCell(row, columnMap.da150),
      hra30            |-> numberCell(row, columnMap.hra30),
      cla              |-> numberCell(row, columnMap.cla),
      addAllowance     |-> numberCell(row, columnMap.addAllowance),
      grossTotal       |-> numberCell(row, columnMap.grossTotal),
      profTax          |-> numberCell(row, columnMap.profTax),
      incomeTax        |-> numberCell(row, columnMap.incomeTax),
      pf               |-> numberCell(row, columnMap.pf),
      lic              |-> numberCell(row, columnMap.lic),
      medicalInsurance |-> numberCell(row, columnMap.medicalInsurance),
      ewFund           |-> numberCell(row, columnMap.ewFund),
      totalDeductions  |-> numberCell(row, columnMap.totalDeductions),
      netPay           |-> numberCell(row, columnMap.netPay),
      basicSalary      |-> numberCell(row, columnMap.revisedBasicPay),
      da               |-> numberCell(row, columnMap.da150),
      hra              |-> numberCell(row, columnMap.hra30),
      allowances       |-> numberCell(row, columnMap.addAllowance),
      grossSalary      |-> numberCell(row, columnMap.grossTotal),
      payDate          |-> isoDate(now),
      status           |-> "paid",
      month            |-> m,
      year             |-> y,
      monthNum         |-> getMonthNumber(m),
      createdAt        |-> now ]

\* the incomplete-row test off by one
rowSkipped_offByOne(row) == Len(row) <= 3

\* `if (row.length < 3) continue`
rowSkipped(row) == Len(row) < 3

\* the loop of lines 341-395, from row ordinal i on
RECURSIVE processRows(_, _, _, _, _, _)
processRows(csvData, i, columnMap, m, y, now) ==
    IF i >= Len(csvData) THEN <<>>
    ELSE LET row  == csvData[i + 1]
             rest == processRows(csvData, i + 1, columnMap, m, y, now)
         IN  IF rowSkipped(row) THEN rest
             ELSE <<makeRecord(row, i, columnMap, m, y, now)>> \o rest

processDataForLocalStorage(csvData, m, y, now) ==
    IF Len(csvData) < 2 THEN <<>>
    ELSE processRows(csvData, 1, columnMapOf(csvData[1]), m, y, now)

----------------------------------------------------------------------------
(* PaysheetImporter.getSampleCSVFormat *)

sampleHeaders ==
    << <<"T","e","a","c","h","e","r"," ","I","D">>, <<"T","e","a","c","h","e","r"," ","N","a","m","e">>, <<"D","e","s","i","g","n","a","t","i","o","n">>, <<"D","e","p","a","r","t","m","e","n","t">>,
       <<"B","a","s","i","c"," ","S","a","l","a","r","y">>, <<"H","R","A">>, <<"D","A">>, <<"A","l","l","o","w","a","n","c","e","s">>, <<"G","r","o","s","s"," ","S","a","l","a","r","y">>,
       <<"P","F">>, <<"E","S","I">>, <<"T","a","x">>, <<"O","t","h","e","r"," ","D","e","d","u","c","t","i","o","n","s">>, <<"T","o","t","a","l"," ","D","e","d","u","c","t","i","o","n","s">>,
       <<"N","e","t"," ","P","a","y">>, <<"P","a","y"," ","D","a","t","e">>, <<"S","t","a","t","u","s">> >>

sampleData ==
    << << <<"T","0","0","1">>, <<"D","r","."," ","J","o","h","n"," ","S","m","i","t","h">>, <<"P","r","o","f","e","s","s","o","r">>, <<"C","o","m","p","u","t","e","r"," ","S","c","i","e","n","c","e">>,
          <<"5","0","0","0","0">>, <<"1","5","0","0","0">>, <<"5","0","0","0">>, <<"3","0","0","0">>, <<"7","3","0","0","0">>,
          <<"6","0","0","0">>, <<"1","0","0","0">>, <<"5","0","0","0">>, <<"5","0","0">>, <<"1","2","5","0","0">>,
          <<"6","0","5","0","0">>, <<"2","0","2","5","-","0","1","-","3","1">>, <<"P","a","i","d">> >>,
       << <<"T","0","0","2">>, <<"M","s","."," ","J","a","n","e"," ","D","o","e">>, <<"A","s","s","o","c","i","a","t","e"," ","P","r","o","f","e","s","s","o","r">>, <<"M","a","t","h","e","m","a","t","i","c","s">>,
          <<"4","5","0","0","0">>, <<"1","3","5","0","0">>, <<"4","5","0","0">>, <<"2","5","0","0">>, <<"6","5","5","0","0">>,
          <<"5","4","0","0">>, <<"9","0","0">>, <<"4","0","0","0">>, <<"3","0","0">>, <<"1","0","6","0","0">>,
          <<"5","4","9","0","0">>, <<"2","0","2","5","-","0","1","-","3","1">>, <<"P","a","i","d">> >> >>

\* headers.join(',') + '\n', then row.join(',') + '\n' for each sample row
getSampleCSVFormat ==
    join(sampleHeaders, ",") \o <<"\n">>
      \o join(sampleData[1], ",") \o <<"\n">>
      \o join(sampleData[2], ",") \o <<"\n">>

----------------------------------------------------------------------------
(* Batch aggregation and JSON *)

RECURSIVE sumOf(_, _)
\* processedData.reduce((sum, record) => sum + record[field], 0)
sumOf(records, field) ==
    IF Len(records) = 0 THEN Num(0)
    ELSE Add(sumOf(SubSeq(records, 1, Len(records) - 1), field),
             records[Len(records)][field])

\* summaryOf with totalGross summed over netPay
summaryOf_grossFromNet(records) ==
    [ totalRecords    |-> Len(records),
      totalGross      |-> sumOf(records, "netPay"),
      totalDeductions |-> sumOf(records, "totalDeductions"),
      totalNet        |-> sumOf(records, "netPay") ]

\* the summary literal of lines 147-152 and 222-227
summaryOf(records) ==
    [ totalRecords    |-> Len(records),
      totalGross      |-> sumOf(records, "grossSalary"),
      totalDeductions |-> sumOf(records, "totalDeductions"),
      totalNet        |-> sumOf(records, "netPay") ]

\* processedData.forEach(record => paysheetData.records[record.teacherId] = record)
keyedRecords(records) ==
    [ t \in { records[i].teacherId : i \in 1..Len(records) } |->
        records[CHOOSE i \in 1..Len(records) :
                   /\ records[i].teacherId = t
                   /\ \A j \in (i + 1)..Len(records) : records[j].teacherId # t] ]

\* paysheetData of the primary attempt (lines 141-158)
primaryPaysheetData(records, m, y, now) ==
    [ month      |-> m,
      year       |-> y,
      monthNum   |-> getMonthNumber(m),
      importDate |-> now,
      records    |-> keyedRecords(records),
      summary    |-> summaryOf(records) ]

\* fallbackPaysheetData with the last record missing from the stored batch
fallbackPaysheetData_dropsLast(records, m, y, now) ==
    [ month      |-> m,
      year       |-> y,
      importDate |-> now,
      records    |-> SubSeq(records, 1, Len(records) - 1),
      summary    |-> summaryOf(records) ]

\* paysheetData of the fallback (lines 217-228)
fallbackPaysheetData(records, m, y, now) ==
    [ month      |-> m,
      year       |-> y,
      importDate |-> now,
      records    |-> records,
      summary    |-> summaryOf(records) ]

NumberFields ==
    {"agp", "revisedBasicPay", "da150", "hra30", "cla", "addAllowance",
     "grossTotal", "profTax", "incomeTax", "pf", "lic", "medicalInsurance",
     "ewFund", "totalDeductions", "netPay", "basicSalary", "da", "hra",
     "allowances", "grossSalary", "totalGross", "totalNet"}

\* JSON.stringify writes null for a number that is not finite
jsonNumber(x) == IF isFinite(x) THEN x ELSE JsonNull

jsonObject(r) ==
    [ f \in DOMAIN r |-> IF f \in NumberFields THEN jsonNumber(r[f]) ELSE r[f] ]

\* JSON.parse(JSON.stringify(paysheetData)): what a reader of the stored text
\* gets back
jsonOfPaysheet(data) ==
    [ data EXCEPT
        !.records = [ k \in DOMAIN data.records |-> jsonObject(data.records[k]) ],
        !.summary = jsonObject(data.summary) ]

----------------------------------------------------------------------------
(* FirebaseDB and the page *)

\* firebase.initializeApp(config) throws unless the configuration is usable
initializeAppThrows(config, e) ==
    \/ config = "invalid"
    \/ config = "undefined" /\ ~e.configOK

\* FirebaseDB.initialize without its `return true`
FirebaseDB_initialize_noReturn(thisConfig, e) == FALSE

\* FirebaseDB.initialize: the value it returns, for an adapter constructed
\* with thisConfig, on page e
FirebaseDB_initialize(thisConfig, e) ==
    /\ e.firebase
    /\ e.apps = 0 => ~initializeAppThrows(thisConfig, e)
    /\ e.database

\* firebase.apps.length after the `if (!firebase.apps.length)` block has run
\* with this configuration
appsAfterInit(config, e) ==
    IF e.firebase /\ e.apps = 0 /\ ~initializeAppThrows(config, e)
    THEN 1 ELSE e.apps

\* a guarded operation of FirebaseDB throws 'Firebase DB not initialized'
FirebaseDB_notInitialized(this) == ~this.initialized

----------------------------------------------------------------------------
(* TeacherPayAPI (src/js/api-client.js) *)

\* what fetch(`${baseURL}/health`) and response.json() can give: fetch
\* rejects, the response is not ok, json() rejects, or the body carries
\* googleSheets: true, googleSheets: false, or no googleSheets property
HealthAnswers == {"rejects", "notOk", "badJson", "true", "false", "undefined"}

\* the constructor
TeacherPayAPI_new == [initialized |-> "false", returned |-> "none"]

\* this.initialized after initialize(): data.googleSheets when the response
\* is ok, false when something threw, untouched when the response is not ok
TeacherPayAPI_flag(this, h) ==
    CASE h \in {"rejects", "badJson"} -> "false"
      [] h = "notOk" -> this.initialized
      [] OTHER -> h

\* the value initialize() returns
TeacherPayAPI_initialize(this, h) == h \in {"true", "false", "undefined"}

\* `if (!this.initialized) throw new Error('API not initialized')`
TeacherPayAPI_notInitialized(this) == this.initialized # "true"

----------------------------------------------------------------------------
(* GoogleSheetsDB *)

\* what fetch of the spreadsheet can give
SheetsAnswers == {"rejects", "notOk", "ok"}

\* the constructor; configured: config carries API_KEY and SPREADSHEET_ID
GoogleSheetsDB_new(configured) ==
    [ configured |-> configured, initialized |-> FALSE,
      isInitialized |-> FALSE, returned |-> "none" ]

\* the value initialize() returns
GoogleSheetsDB_initialize(this, a) == this.configured /\ a = "ok"

\* this.initialized and this.isInitialized after initialize()
GoogleSheetsDB_flag(this, a) ==
    IF ~this.configured THEN this.initialized ELSE a = "ok"

\* `if (!this.initialized) throw new Error('Google Sheets DB not initialized')`
GoogleSheetsDB_notInitialized(this) == ~this.initialized

----------------------------------------------------------------------------
(* The primary attempt of importPaysheetFile *)

\* lines 132-136: firebase.apps, firebase.initializeApp(firebaseConfig) and
\* new FirebaseDB() throw
primarySetupThrows(e) ==
    \/ ~e.firebase
    \/ e.apps = 0 /\ initializeAppThrows("undefined", e)
    \/ ~e.FirebaseDB

\* line 161: firebase.database() throws
databaseThrows(e) == ~e.database

----------------------------------------------------------------------------
(* importPaysheetFile *)

paysheetKeyOf(m, y) == m \o <<"_">> \o y
localKeyOf(m, y) == <<"p","a","y","s","h","e","e","t","_">> \o m \o <<"_">> \o y

isCSV(f) == endsWith(toLowerCase(f.name), <<".","c","s","v">>)
\* the Excel test with the extension check left out
isExcel_anyFile(f) == TRUE

isExcel(f) ==
    \/ endsWith(toLowerCase(f.name), <<".","x","l","s","x">>)
    \/ endsWith(toLowerCase(f.name), <<".","x","l","s">>)

NoId == <<"undefined">>
NullId == <<"null">>
NoData == [isNull |-> TRUE, list |-> <<>>]
DataOf(records) == [isNull |-> FALSE, list |-> records]

\* primaryResult that returns the list without its last record
primaryResult_partial(records, m, y) ==
    [ success   |-> TRUE,
      message   |-> [text |-> "Successfully imported ${n} paysheet records to Firebase database",
                     n |-> Len(records)],
      data      |-> DataOf(SubSeq(records, 1, Len(records) - 1)),
      paysheetId |-> paysheetKeyOf(m, y) ]

\* the object returned at lines 204-209
primaryResult(records, m, y) ==
    [ success   |-> TRUE,
      message   |-> [text |-> "Successfully imported ${n} paysheet records to Firebase database",
                     n |-> Len(records)],
      data      |-> DataOf(records),
      paysheetId |-> paysheetKeyOf(m, y) ]

\* the object returned at lines 233-238
fallbackResult(records) ==
    [ success   |-> TRUE,
      message   |-> [text |-> "Successfully imported ${n} paysheet records to local storage (Firebase backup failed)",
                     n |-> Len(records)],
      data      |-> DataOf(records),
      paysheetId |-> NullId ]

\* failureResult that reports success
failureResult_success(errorMessage) ==
    [ success   |-> TRUE,
      message   |-> [text |-> errorMessage, n |-> 0],
      data      |-> NoData,
      paysheetId |-> NoId ]

\* the object returned at lines 242-246
failureResult(errorMessage) ==
    [ success   |-> FALSE,
      message   |-> [text |-> errorMessage, n |-> 0],
      data      |-> NoData,
      paysheetId |-> NoId ]

\* the rejection of readFile (lines 260, 264, 267)
readFileError(f) ==
    IF isCSV(f) THEN "Failed to read CSV file"
    ELSE IF isExcel(f) THEN "Failed to read Excel file"
    ELSE "Unsupported file format"

\* salarySlipOf with the instant of the write in the slip id
salarySlipOf_timedId(record, m, y, now) ==
    [ id          |-> record.teacherId \o <<"_">> \o m \o <<"_">> \o y
                       \o <<"_">> \o IntToStr(now),
      teacherId   |-> record.teacherId,
      teacherName |-> record.teacherName,
      month       |-> m,
      year        |-> y,
      monthNum    |-> getMonthNumber(m),
      payDate     |-> record.payDate,
      designation |-> record.designation,
      basicSalary |-> record.basicSalary,
      hra         |-> record.hra,
      da          |-> record.da,
      allowances  |-> record.allowances,
      grossSalary |-> record.grossSalary,
      pf          |-> record.pf,
      totalDeductions |-> record.totalDeductions,
      netPay      |-> record.netPay,
      status      |-> record.status,
      createdAt   |-> now,
      paysheetId  |-> paysheetKeyOf(m, y) ]

\* the salarySlip literal of lines 168-193
salarySlipOf(record, m, y, now) ==
    [ id          |-> record.teacherId \o <<"_">> \o m \o <<"_">> \o y,
      teacherId   |-> record.teacherId,
      teacherName |-> record.teacherName,
      month       |-> m,
      year        |-> y,
      monthNum    |-> getMonthNumber(m),
      payDate     |-> record.payDate,
      designation |-> record.designation,
      basicSalary |-> record.basicSalary,
      hra         |-> record.hra,
      da          |-> record.da,
      allowances  |-> record.allowances,
      grossSalary |-> record.grossSalary,
      pf          |-> record.pf,
      totalDeductions |-> record.totalDeductions,
      netPay      |-> record.netPay,
      status      |-> record.status,
      createdAt   |-> now,
      paysheetId  |-> paysheetKeyOf(m, y) ]

\* obj[key] = value on a store
put(store, key, value) ==
    [ k \in DOMAIN store \cup {key} |-> IF k = key THEN value ELSE store[k] ]

EmptyStore == [ k \in {} |-> 0 ]


----------------------------------------------------------------------------
(* Data operations of the adapters *)

\* how a data operation ended: the class and the method, the arguments that
\* name a teacher, whether the adapter was initialized when it was called,
\* the message of the error it threw ("" when it returned), the value it
\* returned, and the requests it issued, in order
Outcome(class, op, args, initialized, threw, returned, requests) ==
    [ class |-> class, op |-> op, args |-> args, initialized |-> initialized,
      threw |-> threw, returned |-> returned, requests |-> requests ]

\* no data operation was called yet
NoOutcome == Outcome("none", "none", <<>>, FALSE, "", "none", <<>>)

\* a request on the network: a fetch of the Sheets service or of the
\* server, or a write against the Realtime Database
Request(method, target) == [method |-> method, target |-> target]

FirebaseNotInitialized == "Firebase DB not initialized"
SheetsNotInitialized == "Google Sheets DB not initialized"
ApiNotInitialized == "API not initialized"

----------------------------------------------------------------------------
(* FirebaseDB: the listener registry *)

\* this.db.ref(path)
ref(path) == [path |-> path, equalTo |-> NoId]

\* this.db.ref(path).orderByChild('teacherId').equalTo(teacherId)
teacherQuery(path, teacherId) == [path |-> path, equalTo |-> teacherId]

\* the arrow function a get* operation hands to on(), and a callback the
\* caller hands to onDataChange
Closure(n) == [by |-> "closure", n |-> n]
Callback(n) == [by |-> "callback", n |-> n]

\* at.on('value', fn), called by the operation that stores fn under key;
\* on() returns fn
on(att, key, at, fn) == att \cup { [key |-> key, at |-> at, fn |-> fn] }

\* at.off('value', fn): a listener that is not attached at `at` stays
\* where it is
off(att, at, fn) == { a \in att : ~(a.at = at /\ a.fn = fn) }

\* `if (this.listeners.has(key)) { at.off('value', this.listeners.get(key)) }`
detachPrevious(reg, att, key, at) ==
    IF key \in DOMAIN reg THEN off(att, at, reg[key]) ELSE att

\* cleanup's forEach: every listener of the registry is taken off the
\* location this.db.ref(key), key being its registry key
RECURSIVE cleanupForEach(_, _, _)
cleanupForEach(reg, keys, att) ==
    IF keys = {} THEN att
    ELSE LET path == CHOOSE k \in keys : TRUE
         IN  cleanupForEach(reg, keys \ {path}, off(att, ref(path), reg[path]))

\* the push key generateId() returns
generatedId == <<"-","N","x","1">>

\* the value FirebaseDB.addTeacher writes under teachers/{teacherId};
\* firebase.database.ServerValue.TIMESTAMP is the placeholder the server
\* replaces
ServerTimestamp == <<"TIMESTAMP">>
orElse(value, default) == IF value = <<>> THEN default ELSE value

FirebaseDB_teacherOf(teacherData, teacherId) ==
    [ id               |-> teacherId,
      name             |-> orElse(teacherData.name, <<>>),
      email            |-> orElse(teacherData.email, <<>>),
      phone            |-> orElse(teacherData.phone, <<>>),
      designation      |-> orElse(teacherData.designation, <<>>),
      department       |-> orElse(teacherData.department, <<>>),
      status           |-> orElse(teacherData.status, <<"p","e","n","d","i","n","g">>),
      registrationDate |-> orElse(teacherData.registrationDate, ServerTimestamp),
      approvedBy       |-> orElse(teacherData.approvedBy, <<>>),
      approvalDate     |-> orElse(teacherData.approvalDate, NullId),
      employmentType   |-> orElse(teacherData.employmentType, <<"P","e","r","m","a","n","e","n","t">>),
      createdAt        |-> ServerTimestamp,
      updatedAt        |-> ServerTimestamp ]

----------------------------------------------------------------------------
(* GoogleSheetsDB: the Teachers sheet *)

\* what the Sheets service does with one request: it serves it (status 200,
\* or 400 when the request names a sheet that does not exist), it refuses
\* it (status 403), or fetch rejects
Service == {"served", "refused", "rejects"}

\* a cell of a row of a `values` body: a string, an array (a row handed
\* over where a cell is expected), or the text of new Date().toISOString()
\* read at instant v
StringCell(s) == [kind |-> "string", v |-> s]
ArrayCell(cells) == [kind |-> "array", v |-> cells]
DateCell(t) == [kind |-> "date", v |-> t]

\* cell === s, for a string s
StrictEq(cell, s) == cell.kind = "string" /\ cell.v = s

\* the spreadsheet has no Teachers sheet
NoSheet == [exists |-> FALSE, rows |-> <<>>]

\* headers of addTeachersHeaders (line 251)
TeachersHeaders ==
    << StringCell(<<"I","D">>), StringCell(<<"N","a","m","e">>), StringCell(<<"E","m","a","i","l">>),
       StringCell(<<"P","h","o","n","e">>), StringCell(<<"D","e","s","i","g","n","a","t","i","o","n">>),
       StringCell(<<"D","e","p","a","r","t","m","e","n","t">>), StringCell(<<"S","t","a","t","u","s">>),
       StringCell(<<"R","e","g","i","s","t","r","a","t","i","o","n"," ","D","a","t","e">>), StringCell(<<"A","p","p","r","o","v","e","d"," ","B","y">>),
       StringCell(<<"A","p","p","r","o","v","a","l"," ","D","a","t","e">>), StringCell(<<"E","m","p","l","o","y","m","e","n","t"," ","T","y","p","e">>) >>

\* teacherHeaders of setupSheets (lines 404-408)
teacherHeaders ==
    << StringCell(<<"i","d">>), StringCell(<<"n","a","m","e">>), StringCell(<<"e","m","a","i","l">>),
       StringCell(<<"p","h","o","n","e">>), StringCell(<<"d","e","s","i","g","n","a","t","i","o","n">>),
       StringCell(<<"d","e","p","a","r","t","m","e","n","t">>), StringCell(<<"j","o","i","n","i","n","g","D","a","t","e">>),
       StringCell(<<"s","t","a","t","u","s">>), StringCell(<<"c","r","e","a","t","e","d","A","t">>),
       StringCell(<<"a","p","p","r","o","v","e","d","B","y">>), StringCell(<<"a","p","p","r","o","v","e","d","A","t">>) >>

\* the inner array of `values` in addTeacher (lines 173-185)
teacherCells(teacher, now) ==
    << StringCell(teacher.id),
       StringCell(teacher.name),
       StringCell(teacher.email),
       StringCell(teacher.phone),
       StringCell(teacher.designation),
       StringCell(teacher.department),
       StringCell(teacher.status),
       IF teacher.registrationDate = <<>> THEN DateCell(now)
       ELSE StringCell(teacher.registrationDate),
       StringCell(orElse(teacher.approvedBy, <<>>)),
       StringCell(orElse(teacher.approvalDate, <<>>)),
       StringCell(orElse(teacher.employmentType, <<"P","e","r","m","a","n","e","n","t">>)) >>

\* array.indexOf(s): the 0-based index of the first cell that is s, or -1
indexOf(row, s) ==
    IF \E i \in 1..Len(row) : StrictEq(row[i], s)
    THEN (CHOOSE i \in 1..Len(row) :
             /\ StrictEq(row[i], s)
             /\ \A j \in 1..(i - 1) : ~StrictEq(row[j], s)) - 1
    ELSE -1

Letters == <<"A","B","C","D","E","F","G","H","I","J","K","L","M","N","O","P","Q","R","S","T","U","V","W","X","Y","Z">>

\* getColumnLetter(index)
RECURSIVE getColumnLetter(_)
getColumnLetter(index) ==
    IF index < 0 THEN <<>>
    ELSE getColumnLetter((index \div 26) - 1) \o <<Letters[(index % 26) + 1]>>

\* the rows of a sheet after a PUT of `values: [cells]` on row 1
putFirstRow(rows, cells) ==
    IF rows = <<>> THEN <<cells>> ELSE <<cells>> \o Tail(rows)

\* the rows of a sheet after a PUT of `values: [[cell]]` on the cell in
\* column index (0-based) of row rowNumber (1-based)
putCell(rows, index, rowNumber, cell) ==
    [ rows EXCEPT ![rowNumber] =
        [ c \in 1..(IF Len(@) > index THEN Len(@) ELSE index + 1) |->
            IF c = index + 1 THEN cell
            ELSE IF c <= Len(@) THEN @[c] ELSE StringCell(<<>>) ] ]

\* the row the service appends for a row of a `values` body: the row as it
\* was sent, or, when the row is one array where a cell is expected and the
\* service unwraps it, the cells of that array
storedRow(row, unwraps) ==
    IF unwraps /\ Len(row) = 1 /\ row[1].kind = "array" THEN row[1].v ELSE row

\* what a method of GoogleSheetsDB leaves behind: the sheet, the requests
\* it issued, the message of the error it threw ("" when it returned) and
\* the value it returned
Left(sheet, requests, threw, returned) ==
    [sheet |-> sheet, requests |-> requests, threw |-> threw, returned |-> returned]

\* `throw new Error(`HTTP error! status: ${response.status}`)`, and the
\* rejection of fetch
httpError(a, sheet) ==
    CASE a = "rejects" -> "Failed to fetch"
      [] a = "refused" -> "HTTP error! status: 403"
      [] OTHER -> "HTTP error! status: 400"

\* readData(range) on the Teachers sheet
readData(this, sheet, range, a) ==
    IF GoogleSheetsDB_notInitialized(this)
    THEN Left(sheet, <<>>, SheetsNotInitialized, <<>>)
    ELSE IF a = "served" /\ sheet.exists
         THEN Left(sheet, <<Request("GET", range)>>, "", sheet.rows)
         ELSE Left(sheet, <<Request("GET", range)>>, httpError(a, sheet), <<>>)

\* writeData('Teachers!A1:K1', cells): `values: [values]` is one row
writeHeaders(this, sheet, range, cells, a) ==
    IF GoogleSheetsDB_notInitialized(this)
    THEN Left(sheet, <<>>, SheetsNotInitialized, "none")
    ELSE IF a = "served" /\ sheet.exists
         THEN Left([sheet EXCEPT !.rows = putFirstRow(@, cells)],
                   <<Request("PUT", range)>>, "", "ok")
         ELSE Left(sheet, <<Request("PUT", range)>>, httpError(a, sheet), "none")

\* writeData(`Teachers!${getColumnLetter(index)}${rowNumber}`, [value])
writeData(this, sheet, index, rowNumber, cell, a) ==
    LET range == <<"T","e","a","c","h","e","r","s","!">> \o getColumnLetter(index) \o IntToStr(rowNumber)
    IN  IF GoogleSheetsDB_notInitialized(this)
        THEN Left(sheet, <<>>, SheetsNotInitialized, "none")
        ELSE IF a = "served" /\ sheet.exists
             THEN Left([sheet EXCEPT !.rows = putCell(@, index, rowNumber, cell)],
                       <<Request("PUT", range)>>, "", "ok")
             ELSE Left(sheet, <<Request("PUT", range)>>, httpError(a, sheet), "none")

\* appendData(range, values): `values: [values]` is one row, whose cells
\* are the elements of values
appendData(this, sheet, range, values, a, unwraps) ==
    IF GoogleSheetsDB_notInitialized(this)
    THEN Left(sheet, <<>>, SheetsNotInitialized, "none")
    ELSE IF a = "served" /\ sheet.exists
         THEN Left([sheet EXCEPT !.rows = Append(@, storedRow(values, unwraps))],
                   <<Request("POST", range \o <<":","a","p","p","e","n","d">>)>>, "", "ok")
         ELSE Left(sheet, <<Request("POST", range \o <<":","a","p","p","e","n","d">>)>>,
                   httpError(a, sheet), "none")

\* addTeachersHeaders(): nothing is thrown and nothing is returned
addTeachersHeaders(sheet, a) ==
    Left(IF a = "served" /\ sheet.exists
         THEN [sheet EXCEPT !.rows = putFirstRow(@, TeachersHeaders)]
         ELSE sheet,
         <<Request("PUT", <<"T","e","a","c","h","e","r","s","!","A","1",":","K","1">>)>>, "", "undefined")

\* createTeachersSheet(): the addSheet request, then the headers when the
\* sheet was created
createTeachersSheet(sheet, a, b) ==
    IF a = "served" /\ ~sheet.exists
    THEN LET h == addTeachersHeaders([exists |-> TRUE, rows |-> <<>>], b)
         IN  Left(h.sheet, <<Request("POST", <<":","b","a","t","c","h","U","p","d","a","t","e">>)>> \o h.requests,
                  "", "undefined")
    ELSE Left(sheet, <<Request("POST", <<":","b","a","t","c","h","U","p","d","a","t","e">>)>>, "", "undefined")

\* ensureTeachersSheetStructure(): the request for Teachers!A1:K1, then
\* the sheet is created on status 400, or the headers are added when the
\* response is ok and carries no values
ensureTeachersSheetStructure(sheet, a, b, c) ==
    LET get == <<Request("GET", <<"T","e","a","c","h","e","r","s","!","A","1",":","K","1">>)>>
    IN  IF a = "served" /\ ~sheet.exists
        THEN LET r == createTeachersSheet(sheet, b, c)
             IN  Left(r.sheet, get \o r.requests, "", "undefined")
        ELSE IF a = "served" /\ (sheet.rows = <<>> \/ sheet.rows[1] = <<>>)
        THEN LET r == addTeachersHeaders(sheet, b)
             IN  Left(r.sheet, get \o r.requests, "", "undefined")
        ELSE Left(sheet, get, "", "undefined")

\* GoogleSheetsDB.addTeacher(teacher)
GoogleSheetsDB_addTeacher(this, sheet, teacher, now, as, unwraps) ==
    LET e == ensureTeachersSheetStructure(sheet, as[1], as[2], as[3])
        r == appendData(this, e.sheet, <<"T","e","a","c","h","e","r","s","!","A",":","K">>,
                        <<ArrayCell(teacherCells(teacher, now))>>, as[4], unwraps)
    IN  Left(r.sheet, e.requests \o r.requests, r.threw, r.returned)

\* setupSheets(): the headers of the Teachers sheet, then those of the
\* SalarySlips sheet (whose cells this model does not keep); an error is
\* caught and false is returned
setupSheets(this, sheet, a, b) ==
    LET w == writeHeaders(this, sheet, <<"T","e","a","c","h","e","r","s","!","A","1",":","K","1">>, teacherHeaders, a)
    IN  IF w.threw # "" THEN Left(w.sheet, w.requests, "", "false")
        ELSE Left(w.sheet,
                  w.requests \o <<Request("PUT", <<"S","a","l","a","r","y","S","l","i","p","s","!","A","1",":","S","1">>)>>,
                  "", IF b = "served" THEN "true" ELSE "false")

\* teachers[i][index], undefined when the row has no such cell
cellAt(row, index) ==
    IF index >= 0 /\ index < Len(row) THEN row[index + 1]
    ELSE [kind |-> "undefined", v |-> <<>>]

\* the three writes of updateTeacherStatus (lines 293-306), one after the
\* other until one throws; columns: the column indexes, cells: the values
RECURSIVE statusWrites(_, _, _, _, _, _)
statusWrites(this, sheet, rowNumber, columns, cells, as) ==
    IF columns = <<>> THEN Left(sheet, <<>>, "", "true")
    ELSE IF Head(columns) = -1
    THEN statusWrites(this, sheet, rowNumber, Tail(columns), Tail(cells), Tail(as))
    ELSE LET w == writeData(this, sheet, Head(columns), rowNumber, Head(cells), Head(as))
         IN  IF w.threw # "" THEN Left(w.sheet, w.requests, w.threw, "none")
             ELSE LET rest == statusWrites(this, w.sheet, rowNumber,
                                           Tail(columns), Tail(cells), Tail(as))
                  IN  Left(rest.sheet, w.requests \o rest.requests,
                           rest.threw, rest.returned)

\* GoogleSheetsDB.updateTeacherStatus(teacherId, status, approvedBy)
GoogleSheetsDB_updateTeacherStatus(this, sheet, teacherId, status, approvedBy, now, as) ==
    LET read == readData(this, sheet, <<"T","e","a","c","h","e","r","s","!","A",":","Z">>, as[1])
        teachers == read.returned
    IN  IF read.threw # "" THEN Left(sheet, read.requests, read.threw, "none")
        ELSE IF Len(teachers) = 0 THEN Left(sheet, read.requests, "", "false")
        ELSE LET headers == teachers[1]
                 statusIndex == indexOf(headers, <<"s","t","a","t","u","s">>)
                 approvedByIndex == indexOf(headers, <<"a","p","p","r","o","v","e","d","B","y">>)
                 approvedAtIndex == indexOf(headers, <<"a","p","p","r","o","v","e","d","A","t">>)
                 idIndex == indexOf(headers, <<"i","d">>)
                 found == { i \in 2..Len(teachers) :
                              StrictEq(cellAt(teachers[i], idIndex), teacherId) }
             IN  IF found = {} THEN Left(sheet, read.requests, "", "false")
                 ELSE LET rowNumber == CHOOSE i \in found : \A j \in found : i <= j
                          w == statusWrites(this, sheet, rowNumber,
                                 <<statusIndex, approvedByIndex, approvedAtIndex>>,
                                 <<StringCell(status), StringCell(approvedBy),
                                   DateCell(now)>>,
                                 Tail(as))
                      IN  Left(w.sheet, read.requests \o w.requests,
                               w.threw, w.returned)
----------------------------------------------------------------------------
(* Inputs *)

HeaderLines ==
    { <<"T","e","a","c","h","e","r"," ","I","D",",","S","t","a","f","f"," ","N","a","m","e",",","G","r","o","s","s"," ","T","o","t","a","l",",","N","e","t"," ","P","a","y">>,
      <<"S","t","a","f","f"," ","I","D",",","F","u","l","l"," ","N","a","m","e",",","B","a","s","i","c">> }

RowLines ==
    { <<"T","0","0","1",",","S","m","i","t","h",",","1","0","0",",","9","0">>,
      <<"T","0","0","2",","," ","\"","D","o","e","\""," ",",","I","n","f","i","n","i","t","y">>,
      <<"T","0","0","3",",","L","e","e">> }

RowSeqs == UNION { [1..n -> RowLines] : n \in 0..MaxRows }

\* the empty file, and a header line followed by data lines
CsvTexts ==
    { <<>> } \cup
    { join(<<h>> \o rows, "\n") \o <<"\n">> : h \in HeaderLines, rows \in RowSeqs }

\* grids XLSX.utils.sheet_to_json(worksheet, { header: 1 }) can return
ExcelGrids ==
    { << <<<<"T","e","a","c","h","e","r"," ","I","D">>, <<"S","t","a","f","f"," ","N","a","m","e">>, <<"G","r","o","s","s"," ","T","o","t","a","l">>>> >>,
      << <<<<"T","e","a","c","h","e","r"," ","I","D">>, <<"S","t","a","f","f"," ","N","a","m","e">>, <<"G","r","o","s","s"," ","T","o","t","a","l">>>>,
         <<<<"T","0","0","9">>, <<"R","a","o">>, <<"2","5","0",".","5">>>> >> }

Files ==
    { [name |-> <<"p","a","y","s","h","e","e","t",".","c","s","v">>, text |-> t] : t \in CsvTexts }
      \cup { [name |-> <<"P","a","y","s","h","e","e","t",".","X","L","S","X">>, text |-> <<>>],
             [name |-> <<"n","o","t","e","s",".","t","x","t">>, text |-> <<>>] }

Months == { <<"J","a","n","u","a","r","y">> }
Years == { <<"2","0","2","5">> }

\* the pages an import can run on; globals that cannot be read are FALSE / 0
Envs ==
    { [firebase |-> FALSE, apps |-> 0, configOK |-> FALSE, database |-> FALSE,
       FirebaseDB |-> c] : c \in BOOLEAN }
    \cup
    { [firebase |-> TRUE, apps |-> 0, configOK |-> g, database |-> d,
       FirebaseDB |-> c] : g \in BOOLEAN, d \in BOOLEAN, c \in BOOLEAN }
    \cup
    { [firebase |-> TRUE, apps |-> 1, configOK |-> TRUE, database |-> d,
       FirebaseDB |-> c] : d \in BOOLEAN, c \in BOOLEAN }

\* header lines and data lines handed to the normaliser alone
NormHeaderLines ==
    HeaderLines \cup { <<"I","D",",","N","a","m","e",",","B","a","s","i","c">>,
                       <<"T","e","a","c","h","e","r"," ","I","D",",","S","t","a","f","f"," ","N","a","m","e",",","N","e","t"," ","P","a","y",",","N","e","t"," ","P","a","y","a","b","l","e">> }

NormRowLines ==
    RowLines \cup { <<" ","T","0","0","4"," ",",","R","a","o",","," ","1","2",".","5","0"," ",",","a","b","c">>,
                    <<"T","0","0","1",",","D","r","."," ","S","m","i","t","h",",","5","0","0","0","0">> }

NormRowSeqs == UNION { [1..n -> NormRowLines] : n \in 0..MaxRows }

NormFiles ==
    { [name |-> <<"p","a","y","s","h","e","e","t",".","c","s","v">>, text |-> <<>>],
      [name |-> <<"p","a","y","s","h","e","e","t","_","s","a","m","p","l","e","_","f","o","r","m","a","t",".","c","s","v">>, text |-> getSampleCSVFormat] }
    \cup
    { [name |-> <<"p","a","y","s","h","e","e","t",".","c","s","v">>,
       text |-> join(<<h>> \o rows, "\n") \o <<"\n">>] :
         h \in NormHeaderLines, rows \in NormRowSeqs }

NormMonths == { <<"J","a","n","u","a","r","y">>, <<"D","e","c","e","m","b","e","r">> }

NoPaysheet ==
    primaryPaysheetData(<<>>, <<>>, <<>>, 0)

\* the state before any call, for the file, period and page given
Start(f, m, y, e) ==
    /\ file = f
    /\ month = m
    /\ year = y
    /\ env = e
    /\ adapter = [config |-> "undefined", initialized |-> FALSE, returned |-> "none"]
    /\ pc = "idle"
    /\ calls = 0
    /\ clock = 0
    /\ parsedData = <<>>
    /\ processed = <<>>
    /\ paysheet = NoPaysheet
    /\ slipIdx = 0
    /\ warnings = {}
    /\ primaryLog = <<>>
    /\ localLog = <<>>
    /\ fbPaysheets = EmptyStore
    /\ fbSlips = EmptyStore
    /\ localStorage = EmptyStore
    /\ results = <<>>
    /\ normOut = <<>>
    /\ api = TeacherPayAPI_new
    /\ monthOut = EmptyStore
    /\ parseOut = <<>>
    /\ listeners = EmptyStore
    /\ attached = {}
    /\ nextListener = 0
    /\ teachersSheet = NoSheet
    /\ fbTeachers = EmptyStore
    /\ opOut = NoOutcome

Init ==
    /\ \E f \in Files, m \in Months, y \in Years, e \in Envs : Start(f, m, y, e)
    /\ sheets = GoogleSheetsDB_new(FALSE)

NormInit ==
    /\ \E f \in NormFiles, m \in NormMonths, y \in Years :
         Start(f, m, y, CHOOSE e \in Envs : ~e.firebase /\ ~e.FirebaseDB)
    /\ sheets = GoogleSheetsDB_new(FALSE)

\* the CSV files that pass validation, on the pages where the Firebase
\* set-up of lines 132-161 succeeds
RepeatInit ==
    /\ \E f \in { g \in Files : isCSV(g) /\ ~validateThrows(parseCSV(g.text)) },
          m \in Months, y \in Years,
          e \in { p \in Envs : ~primarySetupThrows(p) /\ ~databaseThrows(p) } :
         Start(f, m, y, e)
    /\ sheets = GoogleSheetsDB_new(FALSE)

\* lines of a CSV text: plain cells, quoted and padded cells, a cell with
\* a quote on one side only, a lone quote, blank lines, a CR line end
CsvLines ==
    { <<"a",",","b">>, <<" ","\"","x","\""," ",","," ","y"," ">>, <<"\"","a","b","c",",","d","\"">>, <<"\"",",","q">>, <<"a",",","b","\r">>,
      <<" "," "," ">>, <<>> }

CsvLineSeqs == UNION { [1..n -> CsvLines] : n \in 0..MaxRows }

\* the texts handed to parseCSV alone
ParseInit ==
    /\ \E ls \in CsvLineSeqs :
         Start([name |-> <<"p","a","y","s","h","e","e","t",".","c","s","v">>, text |-> join(ls, "\n")],
               <<"J","a","n","u","a","r","y">>, <<"2","0","2","5">>,
               CHOOSE e \in Envs : ~e.firebase /\ ~e.FirebaseDB)
    /\ sheets = GoogleSheetsDB_new(FALSE)

\* the month names, and strings that are not month names
MonthInputs ==
    { <<"J","a","n","u","a","r","y">>, <<"F","e","b","r","u","a","r","y">>, <<"M","a","r","c","h">>, <<"A","p","r","i","l">>, <<"M","a","y">>,
      <<"J","u","n","e">>, <<"J","u","l","y">>, <<"A","u","g","u","s","t">>, <<"S","e","p","t","e","m","b","e","r">>, <<"O","c","t","o","b","e","r">>,
      <<"N","o","v","e","m","b","e","r">>, <<"D","e","c","e","m","b","e","r">>,
      <<"j","a","n","u","a","r","y">>, <<"J","a","n">>, <<>>, <<"1","3">>, <<"c","o","n","s","t","r","u","c","t","o","r">>, <<"t","o","S","t","r","i","n","g">> }

\* a one-record file and each month input
MonthInit ==
    /\ \E m \in MonthInputs :
         Start([name |-> <<"p","a","y","s","h","e","e","t",".","c","s","v">>,
                text |-> <<"T","e","a","c","h","e","r"," ","I","D",",","S","t","a","f","f"," ","N","a","m","e",",","G","r","o","s","s"," ","T","o","t","a","l",",","N","e","t"," ","P","a","y","\n","T","0","0","1",",","S","m","i","t","h",",","1","0","0",",","9","0","\n">>],
               m, <<"2","0","2","5">>, CHOOSE e \in Envs : ~e.firebase /\ ~e.FirebaseDB)
    /\ sheets = GoogleSheetsDB_new(FALSE)

\* the teacher ids handed to getSalarySlips and updateTeacherStatus
TeacherIds == { <<"T","0","0","1">>, <<"T","0","0","2">> }

\* the teachers handed to addTeacher

TeacherPool ==
    { [ id |-> i, name |-> <<"A","s","h","a">>, email |-> <<>>, phone |-> <<>>,
        designation |-> <<>>, department |-> <<>>, status |-> <<"p","e","n","d","i","n","g">>,
        registrationDate |-> <<>>, approvedBy |-> <<>>, approvalDate |-> <<>>,
        employmentType |-> <<>> ] : i \in { <<"T","0","0","1">> } }

\* the paths handed to onDataChange, and the callbacks
ListenerPaths == { <<"t","e","a","c","h","e","r","s">>, <<"p","a","y","s","h","e","e","t","s">> }
Callbacks == { Callback(1), Callback(2) }

\* the pages on which FirebaseDB is loaded and a default app exists
LoadedEnvs ==
    { p \in Envs : p.FirebaseDB /\ p.firebase /\ p.apps = 1 }

\* FirebaseDB objects before initialize, and no listener
ListenerInit ==
    /\ \E e \in LoadedEnvs :
         Start([name |-> <<"n","o","t","e","s",".","t","x","t">>, text |-> <<>>],
               <<"J","a","n","u","a","r","y">>, <<"2","0","2","5">>, e)
    /\ sheets = GoogleSheetsDB_new(FALSE)

\* the three adapters before initialize, and a spreadsheet without a
\* Teachers sheet
DataInit ==
    /\ \E e \in { p \in LoadedEnvs : p.database } :
         Start([name |-> <<"n","o","t","e","s",".","t","x","t">>, text |-> <<>>],
               <<"J","a","n","u","a","r","y">>, <<"2","0","2","5">>, e)
    /\ \E c \in BOOLEAN : sheets = GoogleSheetsDB_new(c)

\* a configured GoogleSheetsDB before initialize, and a spreadsheet without
\* a Teachers sheet
SheetsInit ==
    /\ Start([name |-> <<"n","o","t","e","s",".","t","x","t">>, text |-> <<>>],
             <<"J","a","n","u","a","r","y">>, <<"2","0","2","5">>,
             CHOOSE e \in Envs : ~e.firebase /\ ~e.FirebaseDB)
    /\ sheets = GoogleSheetsDB_new(TRUE)

\* the adapters on each page, before any initialize call
AdapterInit ==
    /\ \E e \in Envs :
         Start([name |-> <<"n","o","t","e","s",".","t","x","t">>, text |-> <<>>],
               <<"J","a","n","u","a","r","y">>, <<"2","0","2","5">>, e)
    /\ \E c \in BOOLEAN : sheets = GoogleSheetsDB_new(c)

----------------------------------------------------------------------------
(* Operations *)

\* a return statement of importPaysheetFile
Returns(r) ==
    /\ results' = Append(results, r)
    /\ pc' = "done"

\* the catch block of lines 211-239, and the outer catch when setItem throws;
\* log: the setItem calls made so far, storeOK: setItem at line 230 returns
Fallback(grid, log, storeOK) ==
    LET records == processDataForLocalStorage(grid, month, year, clock)
        data    == fallbackPaysheetData(records, month, year, clock)
        key     == localKeyOf(month, year)
    IN  /\ localLog' = Append(log, [key |-> key, ok |-> storeOK, line |-> 230])
        /\ localStorage' =
             IF storeOK THEN put(localStorage, key, jsonOfPaysheet(data))
             ELSE localStorage
        /\ Returns(IF storeOK THEN fallbackResult(records)
                   ELSE failureResult("QuotaExceededError"))

\* lines 198-209 after the last slip write: the backup copy, then the return;
\* backupOK: setItem at line 202 returns
FinishPrimary(backupOK, storeOK) ==
    LET key == localKeyOf(month, year)
    IN  IF backupOK
        THEN /\ localLog' = Append(localLog, [key |-> key, ok |-> TRUE, line |-> 202])
             /\ localStorage' = put(localStorage, key, jsonOfPaysheet(paysheet))
             /\ Returns(primaryResult(processed, month, year))
        ELSE Fallback(parsedData,
                      Append(localLog, [key |-> key, ok |-> FALSE, line |-> 202]),
                      storeOK)

\* the write salarySlipsRef.child(slipId).set(salarySlip) for record i
slipWrite(i) ==
    [ op |-> "slip",
      key |-> salarySlipOf(processed[i], month, year, clock).id,
      state |-> "pending" ]

\* FirebaseDB.initialize() on the adapter object
Initialize ==
    /\ env.FirebaseDB
    /\ adapter.returned = "none"
    /\ LET ok == FirebaseDB_initialize(adapter.config, env)
       IN  /\ adapter' = [adapter EXCEPT !.initialized = ok,
                              !.returned = IF ok THEN "true" ELSE "false"]
           /\ env' = [env EXCEPT !.apps = appsAfterInit(adapter.config, env)]
    /\ UNCHANGED <<file, month, year, pc, calls, clock, parsedData, processed,
                   paysheet, slipIdx, warnings, primaryLog, localLog,
                   fbPaysheets, fbSlips, localStorage, results, normOut, api, sheets, sideVars>>

\* importPaysheetFile(file, month, year) up to `await this.readFile(file)`
ImportCall ==
    /\ pc \in {"idle", "done"}
    /\ calls < MaxImports
    /\ calls' = calls + 1
    /\ pc' = "reading"
    /\ clock' = clock + 1
    /\ parsedData' = <<>>
    /\ processed' = <<>>
    /\ paysheet' = NoPaysheet
    /\ slipIdx' = 0
    /\ warnings' = {}
    /\ primaryLog' = <<>>
    /\ localLog' = <<>>
    /\ results' = <<>>
    /\ UNCHANGED <<file, month, year, env, adapter, fbPaysheets, fbSlips,
                   localStorage, normOut, api, sheets, sideVars>>

\* a further importPaysheetFile(file, month, year) call, with the same
\* arguments, once MaxImports calls have returned
ImportAgain ==
    /\ pc = "done"
    /\ calls = MaxImports
    /\ calls' = calls + 1
    /\ pc' = "reading"
    /\ clock' = clock + 1
    /\ parsedData' = <<>>
    /\ processed' = <<>>
    /\ paysheet' = NoPaysheet
    /\ slipIdx' = 0
    /\ warnings' = {}
    /\ primaryLog' = <<>>
    /\ localLog' = <<>>
    /\ results' = <<>>
    /\ UNCHANGED <<file, month, year, env, adapter, fbPaysheets, fbSlips,
                   localStorage, normOut, api, sheets, sideVars>>

\* readFile rejects: the reader fails, or the file kind is not supported
ReadRejected ==
    /\ pc = "reading"
    /\ clock' = clock + 1
    /\ Returns(failureResult(readFileError(file)))
    /\ UNCHANGED <<file, month, year, env, adapter, calls, parsedData,
                   processed, paysheet, slipIdx, warnings, primaryLog,
                   localLog, fbPaysheets, fbSlips, localStorage, normOut, api, sheets, sideVars>>

\* parseExcel throws (the catch of lines 52-54)
ParseFails ==
    /\ pc = "reading"
    /\ isExcel(file) /\ ~isCSV(file)
    /\ clock' = clock + 1
    /\ Returns(failureResult("Failed to parse Excel file: ${error.message}"))
    /\ UNCHANGED <<file, month, year, env, adapter, calls, parsedData,
                   processed, paysheet, slipIdx, warnings, primaryLog,
                   localLog, fbPaysheets, fbSlips, localStorage, normOut, api, sheets, sideVars>>

\* readFile resolves and the file parses to grid: lines 116-162, up to
\* `await paysheetRef.set(paysheetData)`, or through the fallback
Parsed(grid, storeOK) ==
    /\ clock' = clock + 1
    /\ parsedData' = grid
    /\ UNCHANGED <<file, month, year, adapter, calls, fbPaysheets, fbSlips,
                   normOut, api, sheets, sideVars, slipIdx>>
    /\ IF validateThrows(grid)
       THEN /\ Returns(failureResult(
                   "File must contain at least header row and one data row"))
            /\ UNCHANGED <<env, processed, paysheet, warnings, primaryLog,
                           localLog, localStorage>>
       ELSE /\ warnings' = validateWarnings(grid)
            /\ env' = [env EXCEPT !.apps = appsAfterInit("undefined", env)]
            /\ IF primarySetupThrows(env) \/ databaseThrows(env)
               THEN /\ Fallback(grid, localLog, storeOK)
                    /\ UNCHANGED <<processed, paysheet, primaryLog>>
               ELSE /\ processed' =
                         processDataForLocalStorage(grid, month, year, clock)
                    /\ paysheet' =
                         primaryPaysheetData(processed', month, year, clock)
                    /\ primaryLog' =
                         Append(primaryLog,
                                [op |-> "paysheet",
                                 key |-> paysheetKeyOf(month, year),
                                 state |-> "pending"])
                    /\ pc' = "awaitPaysheet"
                    /\ UNCHANGED <<localLog, localStorage, results>>

ReadResolved ==
    /\ pc = "reading"
    /\ \E storeOK \in BOOLEAN :
         \/ isCSV(file) /\ Parsed(parseCSV(file.text), storeOK)
         \/ isExcel(file) /\ ~isCSV(file) /\ \E g \in ExcelGrids : Parsed(g, storeOK)

\* the log once the awaited write (the last one issued) has settled
settled(log, how) == [log EXCEPT ![Len(log)].state = how]

\* NextWrite leaving the loop after the first slip
NextWrite_returnsEarly(i, backupOK, storeOK) ==
    IF i <= Len(processed) /\ i <= 1
    THEN /\ slipIdx' = i
         /\ primaryLog' = Append(settled(primaryLog, "resolved"), slipWrite(i))
         /\ pc' = "awaitSlip"
         /\ UNCHANGED <<localLog, localStorage, results>>
    ELSE /\ FinishPrimary(backupOK, storeOK)
         /\ primaryLog' = settled(primaryLog, "resolved")
         /\ UNCHANGED slipIdx

\* after a write has resolved: the next slip write (lines 167-196) or the end
NextWrite(i, backupOK, storeOK) ==
    IF i <= Len(processed)
    THEN /\ slipIdx' = i
         /\ primaryLog' = Append(settled(primaryLog, "resolved"), slipWrite(i))
         /\ pc' = "awaitSlip"
         /\ UNCHANGED <<localLog, localStorage, results>>
    ELSE /\ FinishPrimary(backupOK, storeOK)
         /\ primaryLog' = settled(primaryLog, "resolved")
         /\ UNCHANGED slipIdx

\* paysheetRef.set(paysheetData) resolves
PaysheetSetResolved ==
    /\ pc = "awaitPaysheet"
    /\ clock' = clock + 1
    /\ fbPaysheets' = put(fbPaysheets, paysheetKeyOf(month, year), paysheet)
    /\ \E backupOK \in BOOLEAN, storeOK \in BOOLEAN :
         NextWrite(1, backupOK, storeOK)
    /\ UNCHANGED <<file, month, year, env, adapter, calls, parsedData,
                   processed, paysheet, warnings, fbSlips, normOut, api, sheets, sideVars>>

\* paysheetRef.set(paysheetData) rejects
PaysheetSetRejected ==
    /\ pc = "awaitPaysheet"
    /\ clock' = clock + 1
    /\ \E storeOK \in BOOLEAN : Fallback(parsedData, localLog, storeOK)
    /\ primaryLog' = settled(primaryLog, "rejected")
    /\ UNCHANGED <<file, month, year, env, adapter, calls, parsedData,
                   processed, paysheet, slipIdx, warnings,
                   fbPaysheets, fbSlips, normOut, api, sheets, sideVars>>

\* salarySlipsRef.child(slipId).set(salarySlip) resolves
SlipSetResolved ==
    /\ pc = "awaitSlip"
    /\ clock' = clock + 1
    /\ LET slip == salarySlipOf(processed[slipIdx], month, year, clock - 1)
       IN  fbSlips' = put(fbSlips, slip.id, slip)
    /\ \E backupOK \in BOOLEAN, storeOK \in BOOLEAN :
         NextWrite(slipIdx + 1, backupOK, storeOK)
    /\ UNCHANGED <<file, month, year, env, adapter, calls, parsedData,
                   processed, paysheet, warnings, fbPaysheets, normOut, api, sheets, sideVars>>

\* a rejected slip write that the loop ignores, going on to lines 198-209
SlipSetRejected_ignored ==
    /\ pc = "awaitSlip"
    /\ clock' = clock + 1
    /\ FinishPrimary(TRUE, TRUE)
    /\ primaryLog' = settled(primaryLog, "rejected")
    /\ UNCHANGED <<file, month, year, env, adapter, calls, parsedData,
                   processed, paysheet, slipIdx, warnings,
                   fbPaysheets, fbSlips, normOut, api, sheets, sideVars>>

\* salarySlipsRef.child(slipId).set(salarySlip) rejects
SlipSetRejected ==
    /\ pc = "awaitSlip"
    /\ clock' = clock + 1
    /\ \E storeOK \in BOOLEAN : Fallback(parsedData, localLog, storeOK)
    /\ primaryLog' = settled(primaryLog, "rejected")
    /\ UNCHANGED <<file, month, year, env, adapter, calls, parsedData,
                   processed, paysheet, slipIdx, warnings,
                   fbPaysheets, fbSlips, normOut, api, sheets, sideVars>>

\* a direct call of processDataForLocalStorage on the parsed CSV text
Normalize ==
    /\ pc = "idle"
    /\ isCSV(file)
    /\ normOut = <<>>
    /\ normOut' = <<processDataForLocalStorage(parseCSV(file.text), month, year, clock)>>
    /\ UNCHANGED <<file, month, year, env, adapter, pc, calls, clock,
                   parsedData, processed, paysheet, slipIdx, warnings,
                   primaryLog, localLog, fbPaysheets, fbSlips, localStorage,
                   results, api, sheets, sideVars>>

\* TeacherPayAPI.initialize() on window.teacherPayAPI, for each answer of
\* the health endpoint
ApiInitialize ==
    /\ \E h \in HealthAnswers :
         api' = [ initialized |-> TeacherPayAPI_flag(api, h),
                  returned |-> IF TeacherPayAPI_initialize(api, h)
                               THEN "true" ELSE "false" ]
    /\ UNCHANGED <<file, month, year, env, adapter, pc, calls, clock,
                   parsedData, processed, paysheet, slipIdx, warnings,
                   primaryLog, localLog, fbPaysheets, fbSlips, localStorage,
                   results, normOut, sheets, sideVars>>

\* GoogleSheetsDB.initialize() on the adapter object, for each answer of
\* the spreadsheet endpoint
SheetsInitialize ==
    /\ \E a \in SheetsAnswers :
         sheets' = [ sheets EXCEPT
                       !.initialized = GoogleSheetsDB_flag(sheets, a),
                       !.isInitialized = GoogleSheetsDB_flag(sheets, a),
                       !.returned = IF GoogleSheetsDB_initialize(sheets, a)
                                    THEN "true" ELSE "false" ]
    /\ UNCHANGED <<file, month, year, env, adapter, pc, calls, clock,
                   parsedData, processed, paysheet, slipIdx, warnings,
                   primaryLog, localLog, fbPaysheets, fbSlips, localStorage,
                   results, normOut, api, sideVars>>

Next ==
    \/ Initialize
    \/ ImportCall
    \/ ReadRejected
    \/ ParseFails
    \/ ReadResolved
    \/ PaysheetSetResolved
    \/ PaysheetSetRejected
    \/ SlipSetResolved
    \/ SlipSetRejected

Spec == Init /\ [][Next]_vars

\* the normaliser applied, on its own, to each grid of NormFiles
NormNext == Normalize

NormSpec == NormInit /\ [][NormNext]_vars

\* initialize called, any number of times, on each of the three adapters
AdapterNext == Initialize \/ ApiInitialize \/ SheetsInitialize

AdapterSpec == AdapterInit /\ [][AdapterNext]_vars

\* PaysheetImporter.getMonthNumber(month) called directly
ImporterMonth ==
    /\ "PaysheetImporter" \notin DOMAIN monthOut
    /\ monthOut' = put(monthOut, "PaysheetImporter", getMonthNumber(month))
    /\ UNCHANGED <<coreVars, parseOut, dataVars>>

\* GoogleSheetsDB.getMonthNumber(month) called directly
SheetsMonth ==
    /\ "GoogleSheetsDB" \notin DOMAIN monthOut
    /\ monthOut' = put(monthOut, "GoogleSheetsDB",
                       GoogleSheetsDB_getMonthNumber(month))
    /\ UNCHANGED <<coreVars, parseOut, dataVars>>

\* FirebaseDB.getMonthNumber(month) called directly
FirebaseMonth ==
    /\ "FirebaseDB" \notin DOMAIN monthOut
    /\ monthOut' = put(monthOut, "FirebaseDB", FirebaseDB_getMonthNumber(month))
    /\ UNCHANGED <<coreVars, parseOut, dataVars>>

\* the same file imported again and again while every Firebase write
\* resolves
RepeatNext ==
    \/ ImportCall
    \/ ImportAgain
    \/ ReadResolved
    \/ PaysheetSetResolved
    \/ SlipSetResolved

RepeatSpec == RepeatInit /\ [][RepeatNext]_vars

\* a direct call of parseCSV on the text of the file
ParseCall ==
    /\ parseOut = <<>>
    /\ parseOut' = <<parseCSV(file.text)>>
    /\ UNCHANGED <<coreVars, monthOut, dataVars>>

ParseNext == ParseCall

ParseSpec == ParseInit /\ [][ParseNext]_vars

\* the three getMonthNumber copies and the normaliser, for each month input
MonthNext == ImporterMonth \/ SheetsMonth \/ FirebaseMonth \/ Normalize

MonthSpec == MonthInit /\ [][MonthNext]_vars

\* the body the four get* operations of FirebaseDB share (lines 738-761):
\* the guard, the previous listener of the key taken off `at`, a new arrow
\* function attached at `at` and stored under the key
Subscribe(op, args, key, at) ==
    /\ IF FirebaseDB_notInitialized(adapter)
       THEN /\ opOut' = Outcome("FirebaseDB", op, args, FALSE,
                                FirebaseNotInitialized, "none", <<>>)
            /\ UNCHANGED <<listeners, attached, nextListener>>
       ELSE LET listener == Closure(nextListener + 1)
            IN  /\ attached' = on(detachPrevious(listeners, attached, key, at),
                                  key, at, listener)
                /\ listeners' = put(listeners, key, listener)
                /\ nextListener' = nextListener + 1
                /\ opOut' = Outcome("FirebaseDB", op, args, TRUE, "",
                                    "undefined", <<>>)
    /\ UNCHANGED <<coreVars, monthOut, parseOut, teachersSheet, fbTeachers>>

\* FirebaseDB.getTeachers(callback)
GetTeachers ==
    /\ nextListener < MaxListeners
    /\ Subscribe("getTeachers", <<>>, <<"t","e","a","c","h","e","r","s">>, ref(<<"t","e","a","c","h","e","r","s">>))

\* FirebaseDB.getSalarySlips(teacherId, callback)
GetSalarySlips ==
    /\ nextListener < MaxListeners
    /\ \E teacherId \in TeacherIds :
         Subscribe("getSalarySlips", <<teacherId>>,
                   <<"s","a","l","a","r","y","S","l","i","p","s","_">> \o teacherId,
                   teacherQuery(<<"s","a","l","a","r","y","S","l","i","p","s">>, teacherId))

\* FirebaseDB.getMonthlyPaysheet(month, year, callback)
GetMonthlyPaysheet ==
    /\ nextListener < MaxListeners
    /\ Subscribe("getMonthlyPaysheet", <<>>,
                 <<"p","a","y","s","h","e","e","t","_">> \o month \o <<"_">> \o year,
                 ref(<<"p","a","y","s","h","e","e","t","s","/">> \o month \o <<"_">> \o year))

\* FirebaseDB.getPaysheetData(callback)
GetPaysheetData ==
    /\ nextListener < MaxListeners
    /\ Subscribe("getPaysheetData", <<>>, <<"p","a","y","s","h","e","e","t","s">>, ref(<<"p","a","y","s","h","e","e","t","s">>))

\* FirebaseDB.onDataChange(path, callback)
OnDataChange ==
    /\ \E path \in ListenerPaths, callback \in Callbacks :
         IF FirebaseDB_notInitialized(adapter)
         THEN /\ opOut' = Outcome("FirebaseDB", "onDataChange", <<>>, FALSE,
                                  FirebaseNotInitialized, "none", <<>>)
              /\ UNCHANGED <<listeners, attached>>
         ELSE /\ attached' = on(attached, path, ref(path), callback)
              /\ listeners' = put(listeners, path, callback)
              /\ opOut' = Outcome("FirebaseDB", "onDataChange", <<>>, TRUE, "",
                                  "unsubscribe", <<>>)
    /\ UNCHANGED <<coreVars, monthOut, parseOut, nextListener, teachersSheet,
                   fbTeachers>>

\* FirebaseDB.cleanup()
Cleanup ==
    /\ attached' = cleanupForEach(listeners, DOMAIN listeners, attached)
    /\ listeners' = EmptyStore
    /\ opOut' = Outcome("FirebaseDB", "cleanup", <<>>, adapter.initialized, "",
                        "undefined", <<>>)
    /\ UNCHANGED <<coreVars, monthOut, parseOut, nextListener, teachersSheet,
                   fbTeachers>>

\* FirebaseDB.addTeacher(teacherData); the set resolves or is rejected
FirebaseAddTeacher ==
    /\ \E teacherData \in TeacherPool, resolves \in BOOLEAN :
         IF FirebaseDB_notInitialized(adapter)
         THEN /\ opOut' = Outcome("FirebaseDB", "addTeacher", <<teacherData.id>>,
                                  FALSE, FirebaseNotInitialized, "none", <<>>)
              /\ UNCHANGED fbTeachers
         ELSE LET teacherId == orElse(teacherData.id, generatedId)
                  path == <<"t","e","a","c","h","e","r","s","/">> \o teacherId
              IN  /\ fbTeachers' =
                       IF resolves
                       THEN put(fbTeachers, path,
                                FirebaseDB_teacherOf(teacherData, teacherId))
                       ELSE fbTeachers
                  /\ opOut' = Outcome("FirebaseDB", "addTeacher", <<teacherId>>,
                                      TRUE,
                                      IF resolves THEN "" ELSE "PERMISSION_DENIED",
                                      IF resolves THEN "success" ELSE "none",
                                      <<Request("set", path)>>)
    /\ UNCHANGED <<coreVars, monthOut, parseOut, listeners, attached,
                   nextListener, teachersSheet>>

\* TeacherPayAPI.getTeachers()
ApiGetTeachers ==
    /\ \E a \in Service :
         opOut' =
           IF TeacherPayAPI_notInitialized(api)
           THEN Outcome("TeacherPayAPI", "getTeachers", <<>>, FALSE,
                        ApiNotInitialized, "none", <<>>)
           ELSE Outcome("TeacherPayAPI", "getTeachers", <<>>, TRUE,
                        CASE a = "served" -> ""
                          [] a = "refused" -> "HTTP 403: Forbidden"
                          [] OTHER -> "Failed to fetch",
                        IF a = "served" THEN "teachers" ELSE "none",
                        <<Request("GET", <<"/","t","e","a","c","h","e","r","s">>)>>)
    /\ UNCHANGED <<coreVars, monthOut, parseOut, listeners, attached,
                   nextListener, teachersSheet, fbTeachers>>

\* GoogleSheetsDB.addTeacher(teacher), for each answer of the service to
\* each of its requests
SheetsAddTeacher ==
    /\ Len(teachersSheet.rows) < MaxSheetRows
    /\ \E teacher \in TeacherPool, as \in [1..4 -> Service], unwraps \in BOOLEAN :
         LET r == GoogleSheetsDB_addTeacher(sheets, teachersSheet, teacher,
                                            clock, as, unwraps)
         IN  /\ teachersSheet' = r.sheet
             /\ opOut' = Outcome("GoogleSheetsDB", "addTeacher", <<teacher.id>>,
                                 sheets.initialized, r.threw, r.returned,
                                 r.requests)
    /\ UNCHANGED <<coreVars, monthOut, parseOut, listeners, attached,
                   nextListener, fbTeachers>>

\* GoogleSheetsDB.setupSheets()
SheetsSetup ==
    /\ \E a \in Service, b \in Service :
         LET r == setupSheets(sheets, teachersSheet, a, b)
         IN  /\ teachersSheet' = r.sheet
             /\ opOut' = Outcome("GoogleSheetsDB", "setupSheets", <<>>,
                                 sheets.initialized, r.threw, r.returned,
                                 r.requests)
    /\ UNCHANGED <<coreVars, monthOut, parseOut, listeners, attached,
                   nextListener, fbTeachers>>

\* GoogleSheetsDB.updateTeacherStatus(teacherId, status, approvedBy)
SheetsUpdateTeacherStatus ==
    /\ \E teacherId \in TeacherIds, as \in [1..4 -> Service] :
         LET r == GoogleSheetsDB_updateTeacherStatus(sheets, teachersSheet,
                      teacherId, <<"a","p","p","r","o","v","e","d">>, <<"a","d","m","i","n">>, clock, as)
         IN  /\ teachersSheet' = r.sheet
             /\ opOut' = Outcome("GoogleSheetsDB", "updateTeacherStatus",
                                 <<teacherId, <<"a","p","p","r","o","v","e","d">>>>,
                                 sheets.initialized, r.threw, r.returned,
                                 r.requests)
    /\ UNCHANGED <<coreVars, monthOut, parseOut, listeners, attached,
                   nextListener, fbTeachers>>

\* the listener operations of a FirebaseDB object
ListenerNext ==
    \/ Initialize
    \/ GetTeachers
    \/ GetSalarySlips
    \/ GetMonthlyPaysheet
    \/ GetPaysheetData
    \/ OnDataChange
    \/ Cleanup

ListenerSpec == ListenerInit /\ [][ListenerNext]_vars

\* initialize and one data operation of each adapter
DataNext ==
    \/ Initialize
    \/ ApiInitialize
    \/ SheetsInitialize
    \/ FirebaseAddTeacher
    \/ ApiGetTeachers
    \/ SheetsAddTeacher

DataSpec == DataInit /\ [][DataNext]_vars

\* the Teachers sheet under the operations of one GoogleSheetsDB object
SheetsNext ==
    \/ SheetsInitialize
    \/ SheetsSetup
    \/ SheetsAddTeacher
    \/ SheetsUpdateTeacherStatus

SheetsSpec == SheetsInit /\ [][SheetsNext]_vars

\* every pending promise of a started call settles
FairSpec == Spec /\ WF_vars(ReadRejected \/ ParseFails \/ ReadResolved
                            \/ PaysheetSetResolved \/ PaysheetSetRejected
                            \/ SlipSetResolved \/ SlipSetRejected)

----------------------------------------------------------------------------
(* State of a finished call *)

Done == pc = "done" /\ Len(results) = 1
Result == results[1]

\* the call passed validation and went on to the stores (line 130)
ReachedStores == Len(parsedData) >= 2

\* lines 132-161 threw before any write was issued
SetupFailed == primarySetupThrows(env) \/ databaseThrows(env)

\* a write against the Firebase database was rejected
WriteRejected == \E i \in 1..Len(primaryLog) : primaryLog[i].state = "rejected"

\* the paysheet write and every slip write were issued and resolved
PrimaryWritesCompleted ==
    /\ Len(primaryLog) = 1 + Len(processed)
    /\ \A i \in 1..Len(primaryLog) : primaryLog[i].state = "resolved"

\* the setItem call of the fallback (line 230) was made / returned
FallbackAttempted == \E i \in 1..Len(localLog) : localLog[i].line = 230
FallbackStored == \E i \in 1..Len(localLog) : localLog[i].line = 230 /\ localLog[i].ok

\* the data rows of the grid that have at least 3 cells, by row ordinal
CompleteRows(grid) == { i \in 1..(Len(grid) - 1) : Len(grid[i + 1]) >= 3 }

\* the localStorage key of the batch, written out
BatchKey == <<"p","a","y","s","h","e","e","t","_">> \o month \o <<"_">> \o year

\* what a reader of the stored text finds for a record of the returned list
ReadBack(record) ==
    [ f \in DOMAIN record |->
        IF f \in NumberFields /\ record[f].k # "fin" THEN JsonNull ELSE record[f] ]

----------------------------------------------------------------------------
(* C1 *)

\* C1 as stated: whenever a step of the primary (Firebase) attempt fails (the
\* set-up, the paysheet write or a slip write), the whole batch is written to
\* localStorage under paysheet_{month}_{year} and the import returns
\* success = true.
C1_AlwaysFallbackSuccess ==
    (Done /\ ReachedStores /\ (SetupFailed \/ WriteRejected)) =>
        /\ Result.success
        /\ BatchKey \in DOMAIN localStorage

\* C1 amended: whenever a step of the primary attempt fails, the failure is
\* caught and the fallback write of the whole batch to localStorage is made;
\* when that write returns, the batch stored under paysheet_{month}_{year}
\* holds every record of the returned list, one per data row with at least 3
\* cells, and the import returns success = true with paysheetId = null; when
\* that write throws, the import returns success = false.
C1_FallbackOnPrimaryFailure ==
    (Done /\ ReachedStores /\ (SetupFailed \/ WriteRejected)) =>
        /\ FallbackAttempted
        /\ Result.success = FallbackStored
        /\ FallbackStored =>
             /\ Result.paysheetId = NullId
             /\ ~Result.data.isNull
             /\ Len(Result.data.list) = Cardinality(CompleteRows(parsedData))
             /\ BatchKey \in DOMAIN localStorage
             /\ localStorage[BatchKey].summary.totalRecords = Len(Result.data.list)
             /\ Len(localStorage[BatchKey].records) = Len(Result.data.list)
             /\ \A i \in 1..Len(Result.data.list) :
                  localStorage[BatchKey].records[i] = ReadBack(Result.data.list[i])

\* a slip write was rejected after the paysheet write had resolved, and the
\* fallback stored a batch of two records
C1_Witness ==
    /\ Done /\ ReachedStores
    /\ WriteRejected
    /\ Len(primaryLog) = 2
    /\ FallbackStored
    /\ Result.success
    /\ Len(Result.data.list) = 2

----------------------------------------------------------------------------
(* C2 *)

\* C2: if FirebaseDB.initialize has returned false on this page, the import
\* issues no paysheet write and no slip write against Firebase, and once it
\* has passed validation it makes the batch write to localStorage.
C2_NoPrimaryWriteWhenUnavailable ==
    adapter.returned = "false" =>
        /\ primaryLog = <<>>
        /\ pc \in {"awaitPaysheet", "awaitSlip"} => FALSE
        /\ (Done /\ ReachedStores) => FallbackAttempted

\* initialize returned false and an import ended on the secondary store
C2_Witness ==
    /\ adapter.returned = "false"
    /\ Done /\ ReachedStores
    /\ FallbackStored
    /\ Result.success
    /\ Len(Result.data.list) > 0

----------------------------------------------------------------------------
(* C3 *)

\* C3: when the primary set-up throws and the fallback write returns, the
\* import returns success and a read of localStorage under
\* paysheet_{month}_{year} gives the records of the returned list, in the
\* same order, and the summary totals of that list.
C3_SecondaryReadBack ==
    (Done /\ ReachedStores /\ primarySetupThrows(env) /\ FallbackStored) =>
        /\ Result.success
        /\ BatchKey \in DOMAIN localStorage
        /\ Len(localStorage[BatchKey].records) = Len(Result.data.list)
        /\ \A i \in 1..Len(Result.data.list) :
             localStorage[BatchKey].records[i] = Result.data.list[i]
        /\ localStorage[BatchKey].summary.totalRecords = Len(Result.data.list)
        /\ localStorage[BatchKey].summary.totalGross
             = sumOf(Result.data.list, "grossSalary")
        /\ localStorage[BatchKey].summary.totalDeductions
             = sumOf(Result.data.list, "totalDeductions")
        /\ localStorage[BatchKey].summary.totalNet
             = sumOf(Result.data.list, "netPay")

----------------------------------------------------------------------------
(* C4 *)

ValidationMessage == "File must contain at least header row and one data row"
ParseMessage == "Failed to parse Excel file: ${error.message}"

\* C4 as stated: when the primary attempt fails and the localStorage write
\* fails too, the import returns success = false together with the processed
\* records.
C4_BatchReturnedOnDoubleFailure ==
    (Done /\ ReachedStores /\ FallbackAttempted /\ ~FallbackStored) =>
        /\ ~Result.success
        /\ ~Result.data.isNull
        /\ Len(Result.data.list) = Cardinality(CompleteRows(parsedData))

\* C4 amended: when the primary attempt fails and the localStorage write
\* fails too, the import returns success = false with the message of the
\* error and data = null; the processed records are not returned.
C4_FailureWithoutData ==
    (Done /\ ReachedStores /\ FallbackAttempted /\ ~FallbackStored) =>
        /\ ~Result.success
        /\ Result.message.text = "QuotaExceededError"
        /\ Result.data = NoData
        /\ Result.paysheetId = NoId

\* a Firebase write was rejected and the fallback setItem threw, for a grid
\* that has records to lose
C4_Witness ==
    /\ Done /\ ReachedStores
    /\ WriteRejected
    /\ FallbackAttempted /\ ~FallbackStored
    /\ Cardinality(CompleteRows(parsedData)) = 2

----------------------------------------------------------------------------
(* C5 *)

\* C5: a successful import carries paysheetId = {month}_{year} exactly when
\* the paysheet write and every slip write against Firebase completed, and
\* paysheetId = null exactly when they did not.
C5_TagTellsStore ==
    (Done /\ Result.success) =>
        /\ (Result.paysheetId = month \o <<"_">> \o year) <=> PrimaryWritesCompleted
        /\ (Result.paysheetId = NullId) <=> ~PrimaryWritesCompleted

----------------------------------------------------------------------------
(* C6 *)

\* the value a finished call has returned is well formed
C6_ResultShape ==
    /\ Len(results) <= 1
    /\ (pc = "done") <=> (Len(results) = 1)
    /\ Len(results) = 1 =>
         /\ Result.success \in BOOLEAN
         /\ Result.message.text # ""
         /\ Result.success =>
              /\ ~Result.data.isNull
              /\ Len(Result.data.list) = Cardinality(CompleteRows(parsedData))
              /\ \E t \in 0..clock :
                   Result.data.list =
                     processDataForLocalStorage(parsedData, month, year, t)
         /\ ~Result.success => Result.data = NoData

\* C6: every started call whose pending promises settle returns, exactly
\* once, a result with a boolean success and a message, and a successful
\* result carries the complete list of processed records.
C6_DefiniteResult ==
    /\ []C6_ResultShape
    /\ (pc = "reading") ~> (pc = "done")

\* a call returned success on the primary path with two records
C6_Witness ==
    /\ Done
    /\ Result.success
    /\ Result.paysheetId # NullId
    /\ Len(Result.data.list) = 2

----------------------------------------------------------------------------
(* C7 *)

\* C7: a parse failure (the workbook cannot be decoded, or the file kind is
\* not supported) ends the import with success = false and the error's
\* message, and this call has written neither to Firebase nor to
\* localStorage.
C7_ParseFailureTouchesNoStore ==
    (Done /\ (file.name = <<"n","o","t","e","s",".","t","x","t">> \/ Result.message.text = ParseMessage)) =>
        /\ ~Result.success
        /\ Result.data = NoData
        /\ file.name = <<"n","o","t","e","s",".","t","x","t">> => Result.message.text = "Unsupported file format"
        /\ primaryLog = <<>>
        /\ localLog = <<>>
        /\ calls = 1 =>
             /\ fbPaysheets = EmptyStore
             /\ fbSlips = EmptyStore
             /\ localStorage = EmptyStore

\* a call ended on a workbook that could not be decoded
C7_Witness ==
    /\ Done
    /\ Result.message.text = ParseMessage
    /\ ~Result.success

----------------------------------------------------------------------------
(* C8 *)

\* C8 as stated: for every grid that has a header row, validation does not
\* reject the file.
C8_HeaderRowSuffices ==
    (Done /\ Len(parsedData) >= 1) => Result.message.text # ValidationMessage

\* C8 amended: for every grid of text cells that has a header row and at
\* least one further row, whatever its header names and however short its
\* rows, validation does not reject the file: the import goes on to the
\* stores, and a successful import returns one record per row that has at
\* least 3 cells (possibly none).  A grid of fewer than two rows is rejected.
C8_WarningsNeverAbort ==
    /\ (Done /\ Len(parsedData) >= 2) =>
         /\ Result.message.text # ValidationMessage
         /\ warnings = validateWarnings(parsedData)
         /\ FallbackAttempted \/ primaryLog # <<>>
         /\ Result.success =>
              Len(Result.data.list) = Cardinality(CompleteRows(parsedData))
    /\ (Done /\ isCSV(file) /\ Len(parsedData) < 2) =>
         Result.message.text \in {ValidationMessage, "Failed to read CSV file"}

\* an import succeeded although a recommended column was missing and a row
\* was skipped
C8_Witness ==
    /\ Done /\ ReachedStores
    /\ warnings # {}
    /\ Cardinality(CompleteRows(parsedData)) < Len(parsedData) - 1
    /\ Result.success
    /\ Len(Result.data.list) = 1

----------------------------------------------------------------------------
(* C9 *)

\* the k-th smallest row ordinal of a set of row ordinals
KthOf(S, k) == CHOOSE i \in S : Cardinality({ j \in S : j < i }) = k - 1

\* out holds, in row order, exactly one record for each data row of grid
\* that has at least 3 cells
OneRecordPerCompleteRow(grid, out) ==
    /\ Len(out) = Cardinality(CompleteRows(grid))
    /\ Len(out) = (IF Len(grid) = 0 THEN 0 ELSE Len(grid) - 1)
                    - Cardinality({ i \in 1..(Len(grid) - 1) : Len(grid[i + 1]) < 3 })
    /\ \A k \in 1..Len(out) :
         LET i == KthOf(CompleteRows(grid), k)
         IN  /\ out[k].teacherId = textCell(grid[i + 1], columnMapOf(grid[1]).teacherId)
             /\ out[k].teacherName = textCell(grid[i + 1], columnMapOf(grid[1]).teacherName)
             /\ out[k].grossTotal = numberCell(grid[i + 1], columnMapOf(grid[1]).grossTotal)
             /\ out[k].teacherId = <<>> =>
                  out[k].id = IntToStr(i) \o <<"_">> \o month \o <<"_">> \o year

\* C9: processDataForLocalStorage returns exactly one record for each data
\* row that has at least 3 cells and none for a shorter row, in row order;
\* a grid without data rows gives the empty list.
C9_OneRecordPerCompleteRow ==
    normOut # <<>> => OneRecordPerCompleteRow(parseCSV(file.text), normOut[1])

\* the normaliser was applied to a grid whose first data row is too short
\* and whose second is complete
C9_Witness ==
    /\ normOut # <<>>
    /\ Len(parseCSV(file.text)) = 3
    /\ Len(parseCSV(file.text)[2]) < 3
    /\ Len(normOut[1]) = 1

\* the normaliser was applied to a grid that has no data row
C9_WitnessNoRows ==
    /\ normOut # <<>>
    /\ Len(parseCSV(file.text)) = 1
    /\ normOut[1] = <<>>

----------------------------------------------------------------------------
(* C10 *)

\* the record field each recommended column of validatePaysheetData feeds
AliasField == <<"teacherId", "teacherName", "revisedBasicPay">>

\* C10: when a header matches an alias of the identifier, the name or the
\* basic pay (in either direction, after normalising), the column mapping
\* that builds the records maps that field to a matching column.
C10_AliasHeadersMapped ==
    Len(parsedData) >= 2 =>
        \A r \in 1..Len(requiredColumns) :
            columnFound(requiredColumns[r], parsedData[1]) =>
                LET c == columnMapOf(parsedData[1])[AliasField[r]]
                IN  /\ c # Unmapped
                    /\ columnFound(requiredColumns[r], <<parsedData[1][c + 1]>>)

----------------------------------------------------------------------------
(* C11 *)

\* the grid the normaliser was applied to
NormGrid == parseCSV(file.text)

\* the first column, from the left, whose header names field f
LeftmostColumn(headers, f) ==
    LET S == { i \in 0..(Len(headers) - 1) : headerField(headers[i + 1]) = f }
    IN  IF S = {} THEN Unmapped ELSE CHOOSE i \in S : \A j \in S : i <= j

\* C11: when several header columns qualify for the same field, the column
\* map records the leftmost of them, and every record takes the field from
\* that column (here: netPay).
C11_LeftmostColumnWins ==
    (normOut # <<>> /\ Len(NormGrid) >= 2) =>
        /\ \A f \in MappedFields :
             columnMapOf(NormGrid[1])[f] = LeftmostColumn(NormGrid[1], f)
        /\ \A k \in 1..Len(normOut[1]) :
             normOut[1][k].netPay =
                numberCell(NormGrid[KthOf(CompleteRows(NormGrid), k) + 1],
                           LeftmostColumn(NormGrid[1], "netPay"))

----------------------------------------------------------------------------
(* C12 *)

ScenarioA == <<"I","D",",","N","a","m","e",",","B","a","s","i","c","\n","T","0","0","1",",","D","r","."," ","S","m","i","t","h",",","5","0","0","0","0","\n">>

\* C12: parsing and normalising the rows "ID,Name,Basic" and
\* "T001,Dr. Smith,50000" for (January, 2025) yields exactly one record, with
\* identifier T001_January_2025, basicSalary 50000 and monthNum "01".
C12_ScenarioA ==
    (normOut # <<>> /\ file.text = ScenarioA
        /\ month = <<"J","a","n","u","a","r","y">> /\ year = <<"2","0","2","5">>) =>
        /\ Len(normOut[1]) = 1
        /\ normOut[1][1].id = <<"T","0","0","1","_","J","a","n","u","a","r","y","_","2","0","2","5">>
        /\ normOut[1][1].basicSalary = Num(50000)
        /\ normOut[1][1].monthNum = <<"0","1">>

----------------------------------------------------------------------------
(* C13 *)

\* the identifier cell of data row i of the grid ('' when absent or empty)
IdentifierCell(grid, i) == textCell(grid[i + 1], columnMapOf(grid[1]).teacherId)

\* every record's id is {identifier cell, or row ordinal}_{month}_{year}
IdentifierFormat(grid, out) ==
    \A k \in 1..Len(out) :
        LET i == KthOf(CompleteRows(grid), k)
        IN  out[k].id =
              (IF IdentifierCell(grid, i) # <<>> THEN IdentifierCell(grid, i)
               ELSE IntToStr(i)) \o <<"_">> \o month \o <<"_">> \o year

\* C13: each record's identifier is {identifier cell, or the row ordinal when
\* the identifier is absent}_{month}_{year}, and within one batch the
\* identifiers of all records are pairwise distinct.
C13_IdentifiersDistinct ==
    (normOut # <<>> /\ Len(NormGrid) >= 2) =>
        /\ IdentifierFormat(NormGrid, normOut[1])
        /\ \A j \in 1..Len(normOut[1]) : \A k \in 1..Len(normOut[1]) :
             j # k => normOut[1][j].id # normOut[1][k].id

----------------------------------------------------------------------------
(* C14 *)

\* the paysheet write of this call has been issued (line 162)
PaysheetWriteIssued == primaryLog # <<>>

\* the values of the keyed index
IndexEntries(index) == { index[k] : k \in DOMAIN index }

\* C14: the keyed records index of the batch written to Firebase has exactly
\* one entry per record identifier of the batch, and a record is missing from
\* it only when a later record of the batch has the same identifier.
C14_OneIndexEntryPerRecord ==
    PaysheetWriteIssued =>
        /\ Cardinality(DOMAIN paysheet.records)
             = Cardinality({ processed[i].id : i \in 1..Len(processed) })
        /\ \A i \in 1..Len(processed) :
             (\A j \in (i + 1)..Len(processed) : processed[j].id # processed[i].id)
                => processed[i] \in IndexEntries(paysheet.records)

----------------------------------------------------------------------------
(* C15 *)

\* the currency fields of a record
CurrencyFields ==
    {"agp", "revisedBasicPay", "da150", "hra30", "cla", "addAllowance",
     "grossTotal", "profTax", "incomeTax", "pf", "lic", "medicalInsurance",
     "ewFund", "totalDeductions", "netPay", "basicSalary", "da", "hra",
     "allowances", "grossSalary"}

\* the mapped field whose column a currency field is read from
SourceField(f) ==
    CASE f = "basicSalary" -> "revisedBasicPay"
      [] f = "da"          -> "da150"
      [] f = "hra"         -> "hra30"
      [] f = "allowances"  -> "addAllowance"
      [] f = "grossSalary" -> "grossTotal"
      [] OTHER -> f

\* the text of the cell a currency field of data row i is read from
CurrencyCell(grid, i, f) ==
    textCell(grid[i + 1], columnMapOf(grid[1])[SourceField(f)])

\* s is digits with at most one decimal point, e.g. 100 or 12.50
IsDecimalString(s) ==
    /\ \E i \in 1..Len(s) : IsDigit(s[i])
    /\ \A i \in 1..Len(s) : IsDigit(s[i]) \/ s[i] = "."
    /\ Cardinality({ i \in 1..Len(s) : s[i] = "." }) <= 1

\* the number a decimal string denotes
DecimalOf(s) ==
    LET dots == { i \in 1..Len(s) : s[i] = "." }
    IN  IF dots = {} THEN Num(DigitsVal(s))
        ELSE LET p == CHOOSE i \in dots : TRUE
             IN  NormDec(DigitsVal(SubSeq(s, 1, p - 1) \o Drop(s, p)),
                         Len(s) - p)

\* s holds no decimal digit at all
NonNumeric(s) == \A i \in 1..Len(s) : ~IsDigit(s[i])

\* the coercion of valid and of non-numeric cells, without the finiteness
CoercionOfCells(grid, out) ==
    \A k \in 1..Len(out) : \A f \in CurrencyFields :
        LET cell == CurrencyCell(grid, KthOf(CompleteRows(grid), k), f)
        IN  /\ IsDecimalString(trim(cell)) => out[k][f] = DecimalOf(trim(cell))
            /\ NonNumeric(cell) => out[k][f] = Num(0)

\* C15: for every currency field of every produced record, a cell of
\* non-numeric text coerces to 0, a cell holding a valid number string
\* (possibly with surrounding whitespace) coerces to that number, and the
\* stored value is always a finite number.
C15_CurrencyFinite ==
    (normOut # <<>> /\ Len(NormGrid) >= 2) =>
        /\ CoercionOfCells(NormGrid, normOut[1])
        /\ \A k \in 1..Len(normOut[1]) : \A f \in CurrencyFields :
             normOut[1][k][f].k = "fin"

----------------------------------------------------------------------------
(* C16 *)

\* records[i][f] + (records[i+1][f] + ...), the sum taken from the right
RECURSIVE SumFrom(_, _, _)
SumFrom(records, f, i) ==
    IF i > Len(records) THEN Num(0)
    ELSE Add(records[i][f], SumFrom(records, f, i + 1))

\* the totals of a record list, field by field
TotalsOf(records) ==
    [ totalRecords    |-> Len(records),
      totalGross      |-> SumFrom(records, "grossSalary", 1),
      totalDeductions |-> SumFrom(records, "totalDeductions", 1),
      totalNet        |-> SumFrom(records, "netPay", 1) ]

\* C16: the summary of the batch is a function of the record list alone:
\* totalRecords is its length and totalGross, totalDeductions, totalNet are
\* the sums of grossSalary, totalDeductions, netPay over it; the summary
\* computed on the primary path and the one computed again on the fallback
\* path of the same call are identical.
C16_SummaryIsPure ==
    /\ PaysheetWriteIssued => paysheet.summary = TotalsOf(processed)
    /\ (Done /\ Result.success) =>
         /\ summaryOf(Result.data.list) = TotalsOf(Result.data.list)
         /\ PaysheetWriteIssued =>
              summaryOf(Result.data.list) = paysheet.summary
    /\ (Done /\ FallbackStored) =>
         /\ localStorage[BatchKey].summary
              = jsonObject(TotalsOf(Result.data.list))
         /\ PaysheetWriteIssued =>
              localStorage[BatchKey].summary = jsonObject(paysheet.summary)

\* a call computed the summary of two records on the primary path, a write
\* was rejected, and the fallback computed and stored it again
C16_Witness ==
    /\ Done /\ Result.success
    /\ PaysheetWriteIssued /\ WriteRejected /\ FallbackStored
    /\ Len(Result.data.list) = 2
    /\ paysheet.summary.totalGross = Num(200)
    /\ localStorage[BatchKey].summary.totalNet = Num(180)

----------------------------------------------------------------------------
(* C17 *)

\* FirebaseDB and GoogleSheetsDB: initialize returned true exactly when the
\* adapter is ready afterwards
TwoAdaptersReportReadiness ==
    /\ adapter.returned # "none" =>
         (adapter.returned = "true") = ~FirebaseDB_notInitialized(adapter)
    /\ sheets.returned # "none" =>
         /\ (sheets.returned = "true") = ~GoogleSheetsDB_notInitialized(sheets)
         /\ sheets.isInitialized = sheets.initialized

\* C17: for FirebaseDB, GoogleSheetsDB and TeacherPayAPI, initialize returns
\* true exactly when the adapter is ready afterwards (its guarded operations
\* do not throw the not-initialized error) and false exactly when it is not.
C17_InitializeReportsReadiness ==
    /\ TwoAdaptersReportReadiness
    /\ api.returned # "none" =>
         (api.returned = "true") = ~TeacherPayAPI_notInitialized(api)

----------------------------------------------------------------------------
(* C18 *)

\* the identifier of the slip of record i of the primary attempt
SlipIdOf(i) == processed[i].teacherId \o <<"_">> \o month \o <<"_">> \o year

\* the call returned success with the primary tag
PrimarySuccess ==
    Done /\ Result.success /\ Result.paysheetId = month \o <<"_">> \o year

\* C18: during the primary attempt the paysheet write is the first write,
\* the slip writes follow in record order, each issued only after the write
\* before it has resolved, and success with the primary tag is returned only
\* after the paysheet and every slip have been written.
C18_PaysheetThenSlipsInOrder ==
    /\ Len(primaryLog) <= 1 + Len(processed)
    /\ \A k \in 1..Len(primaryLog) :
         /\ k = 1 => primaryLog[k].op = "paysheet"
         /\ k > 1 => /\ primaryLog[k].op = "slip"
                     /\ primaryLog[k].key = SlipIdOf(k - 1)
         /\ k < Len(primaryLog) => primaryLog[k].state = "resolved"
    /\ pc = "awaitPaysheet" => Len(primaryLog) = 1
    /\ pc = "awaitSlip" => slipIdx = Len(primaryLog) - 1
    /\ (calls = 1 /\ fbSlips # EmptyStore) =>
         (month \o <<"_">> \o year) \in DOMAIN fbPaysheets
    /\ PrimarySuccess =>
         /\ PrimaryWritesCompleted
         /\ (month \o <<"_">> \o year) \in DOMAIN fbPaysheets
         /\ \A i \in 1..Len(processed) : SlipIdOf(i) \in DOMAIN fbSlips

\* a call wrote the paysheet and the slips of two teachers and returned
\* success with the primary tag
C18_Witness ==
    /\ PrimarySuccess
    /\ Len(processed) = 2
    /\ Len(primaryLog) = 3
    /\ Cardinality(DOMAIN fbSlips) = 2

----------------------------------------------------------------------------
(* C19 *)

\* a slip write of this call was rejected
SlipRejected ==
    \E k \in 1..Len(primaryLog) :
        primaryLog[k].op = "slip" /\ primaryLog[k].state = "rejected"

\* C19 as stated: the failure of a slip write does not by itself switch the
\* import to the secondary store.
C19_SlipFailureKeepsPrimary ==
    (Done /\ SlipRejected) => ~FallbackAttempted

\* C19 amended: the fallback is decided for the batch as a whole: a rejected
\* slip write ends the primary attempt (no later slip write is issued) and
\* the whole batch, the records whose slips were already written included,
\* goes to localStorage; the result never carries the primary tag; the
\* paysheet and the slips written before the failure stay in Firebase.
C19_SlipFailureFallsBackWholeBatch ==
    (Done /\ SlipRejected) =>
        /\ primaryLog[Len(primaryLog)].state = "rejected"
        /\ FallbackAttempted
        /\ Result.success = FallbackStored
        /\ Result.paysheetId # month \o <<"_">> \o year
        /\ FallbackStored =>
             /\ Result.paysheetId = NullId
             /\ Len(localStorage[BatchKey].records) = Len(processed)
             /\ Len(Result.data.list) = Len(processed)
        /\ fbPaysheets[month \o <<"_">> \o year] = paysheet
        /\ \A i \in 1..(Len(primaryLog) - 2) : SlipIdOf(i) \in DOMAIN fbSlips

\* the second of two slip writes was rejected after the first had been
\* written, and the fallback stored the batch
C19_Witness ==
    /\ Done /\ SlipRejected
    /\ Len(processed) = 2
    /\ Len(primaryLog) = 3
    /\ Cardinality(DOMAIN fbSlips) = 1
    /\ FallbackStored

----------------------------------------------------------------------------
(* C20 *)

\* the fields that are stored as read, each from its own column
OwnCellFields == {"netPay", "grossTotal", "totalDeductions"}

\* C20: in every produced record each legacy alias equals its exact-schema
\* field (basicSalary = revisedBasicPay, da = da150, hra = hra30,
\* allowances = addAllowance, grossSalary = grossTotal), and netPay,
\* grossTotal and totalDeductions are the numbers of their own cells (0 when
\* the column is not mapped), never recomputed from other fields.
C20_AliasesAndOwnCells ==
    (normOut # <<>> /\ Len(NormGrid) >= 2) =>
        \A k \in 1..Len(normOut[1]) :
            LET r == normOut[1][k]
                i == KthOf(CompleteRows(NormGrid), k)
            IN  /\ r.basicSalary = r.revisedBasicPay
                /\ r.da = r.da150
                /\ r.hra = r.hra30
                /\ r.allowances = r.addAllowance
                /\ r.grossSalary = r.grossTotal
                /\ \A f \in OwnCellFields :
                     /\ IsDecimalString(CurrencyCell(NormGrid, i, f)) =>
                          r[f] = DecimalOf(CurrencyCell(NormGrid, i, f))
                     /\ columnMapOf(NormGrid[1])[f] = Unmapped => r[f] = Num(0)

\* a record whose net pay is not its gross total less its deductions
C20_Witness ==
    /\ normOut # <<>>
    /\ Len(normOut[1]) >= 1
    /\ normOut[1][1].grossTotal = Num(100)
    /\ normOut[1][1].grossSalary = Num(100)
    /\ normOut[1][1].totalDeductions = Num(0)
    /\ normOut[1][1].netPay = Num(90)

----------------------------------------------------------------------------
(* C21 *)

\* the text fields of a record that are read from a mapped column
TextFields ==
    {"teacherId", "teacherName", "designation", "qualification", "payScale",
     "payBand"}

\* the row has no cell in the column of field f: the column is not mapped,
\* or the row ends before it
CellMissing(grid, i, f) ==
    LET col == columnMapOf(grid[1])[f]
    IN  col = Unmapped \/ col >= Len(grid[i + 1])

\* C21: for every header row and every data row with at least 3 cells, a
\* row shorter than a mapped column index included, normalisation yields a
\* record in which every unmapped or missing text field is the empty text
\* and every unmapped or missing currency field is 0.
C21_MissingCellsDefault ==
    (normOut # <<>> /\ Len(NormGrid) >= 2) =>
        /\ Len(normOut[1]) = Cardinality(CompleteRows(NormGrid))
        /\ \A k \in 1..Len(normOut[1]) :
             LET i == KthOf(CompleteRows(NormGrid), k)
             IN  /\ \A f \in TextFields :
                      CellMissing(NormGrid, i, f) => normOut[1][k][f] = <<>>
                 /\ \A f \in CurrencyFields :
                      CellMissing(NormGrid, i, SourceField(f)) =>
                          normOut[1][k][f] = Num(0)

\* a record made from a row of 3 cells under a header that maps netPay to
\* the fourth column
C21_Witness ==
    /\ normOut # <<>>
    /\ Len(NormGrid) >= 2
    /\ columnMapOf(NormGrid[1]).netPay = 3
    /\ Len(NormGrid[2]) = 3
    /\ Len(normOut[1]) >= 1
    /\ normOut[1][1].netPay = Num(0)
    /\ normOut[1][1].designation = <<>>
    /\ normOut[1][1].teacherName # <<>>

----------------------------------------------------------------------------
(* C22 *)

MonthNames ==
    << <<"J","a","n","u","a","r","y">>, <<"F","e","b","r","u","a","r","y">>, <<"M","a","r","c","h">>, <<"A","p","r","i","l">>, <<"M","a","y">>,
       <<"J","u","n","e">>, <<"J","u","l","y">>, <<"A","u","g","u","s","t">>, <<"S","e","p","t","e","m","b","e","r">>, <<"O","c","t","o","b","e","r">>,
       <<"N","o","v","e","m","b","e","r">>, <<"D","e","c","e","m","b","e","r">> >>

\* the two-digit number of a month name in calendar order, "01" for any
\* other input
MonthTable(name) ==
    IF \E i \in 1..12 : MonthNames[i] = name
    THEN LET i == CHOOSE j \in 1..12 : MonthNames[j] = name
         IN  (IF i < 10 THEN <<"0">> ELSE <<>>) \o IntToStr(i)
    ELSE <<"0","1">>

\* C22: each copy of getMonthNumber maps January..December to "01".."12" in
\* calendar order and every other input to "01", the copies agree on every
\* input, and a record's monthNum is getMonthNumber of the import's month.
C22_MonthNumber ==
    /\ \A c \in DOMAIN monthOut : monthOut[c] = MonthTable(month)
    /\ \A c \in DOMAIN monthOut : \A e \in DOMAIN monthOut :
         monthOut[c] = monthOut[e]
    /\ normOut # <<>> =>
         \A k \in 1..Len(normOut[1]) :
             /\ normOut[1][k].monthNum = getMonthNumber(month)
             /\ normOut[1][k].monthNum = MonthTable(month)

----------------------------------------------------------------------------
(* C23 *)

\* the lines of the text that are not blank, in order
RECURSIVE NonBlank(_)
NonBlank(lines) ==
    IF lines = <<>> THEN <<>>
    ELSE (IF \E i \in 1..Len(lines[1]) : ~IsSpace(lines[1][i])
          THEN <<lines[1]>> ELSE <<>>) \o NonBlank(Tail(lines))

\* a cell trimmed, with one matching pair of surrounding quotes removed
PairStripped(cell) ==
    LET t == trim(cell)
    IN  IF Len(t) >= 2 /\ t[1] = "\"" /\ t[Len(t)] = "\""
        THEN SubSeq(t, 2, Len(t) - 1) ELSE t

\* C23: parseCSV returns one row per non-blank line, in input order; each
\* row is the line split on commas with every cell trimmed and one matching
\* pair of surrounding double quotes removed, a cell without a matching
\* pair keeping its quote character.
C23_ParseCSVRows ==
    parseOut # <<>> =>
        LET lines == NonBlank(split(file.text, "\n"))
            rows  == parseOut[1]
        IN  /\ Len(rows) = Len(lines)
            /\ \A i \in 1..Len(rows) :
                 LET cells == split(lines[i], ",")
                 IN  /\ Len(rows[i]) = Len(cells)
                     /\ \A j \in 1..Len(cells) :
                          rows[i][j] = PairStripped(cells[j])

\* rows, blank lines and trimming without regard to quotes
ParseCSVShape ==
    parseOut # <<>> =>
        LET lines == NonBlank(split(file.text, "\n"))
            rows  == parseOut[1]
        IN  /\ Len(rows) = Len(lines)
            /\ \A i \in 1..Len(rows) :
                 LET cells == split(lines[i], ",")
                 IN  /\ Len(rows[i]) = Len(cells)
                     /\ \A j \in 1..Len(cells) :
                          (\A q \in 1..Len(cells[j]) : cells[j][q] # "\"") =>
                              rows[i][j] = trim(cells[j])

----------------------------------------------------------------------------
(* C24 *)

\* a record, a slip or a paysheet without the instants it carries
Untimed(x) ==
    [ f \in DOMAIN x |->
        IF f \in {"createdAt", "payDate", "importDate"} THEN 0
        ELSE IF f = "records"
             THEN [ k \in DOMAIN x.records |->
                      [ x.records[k] EXCEPT !.createdAt = 0, !.payDate = 0 ] ]
        ELSE x[f] ]

\* the records of one import of the file
OnceRecords == processDataForLocalStorage(parseCSV(file.text), month, year, 0)

\* the slip keys one import of the file writes: one per distinct
\* identifier cell of its complete rows
OnceSlipKeys ==
    { IdentifierCell(parseCSV(file.text), i) \o <<"_">> \o month \o <<"_">> \o year :
        i \in CompleteRows(parseCSV(file.text)) }

\* the slip one import leaves under key k: that of the last record with k
OnceSlip(k) ==
    LET S == { i \in 1..Len(OnceRecords) :
                 salarySlipOf(OnceRecords[i], month, year, 0).id = k }
        i == CHOOSE j \in S : \A h \in S : h <= j
    IN  Untimed(salarySlipOf(OnceRecords[i], month, year, 0))

\* C24: after the file has been imported for (month, year) against an
\* available Firebase database, once or again, the database holds
\* paysheets/{month}_{year} and one salarySlips/{id} per distinct
\* identifier, with the contents one import gives apart from timestamps:
\* a further import overwrites and adds no entry.
C24_ReimportOverwrites ==
    (calls >= 1 /\ pc = "done") =>
        /\ DOMAIN fbPaysheets = { month \o <<"_">> \o year }
        /\ Untimed(fbPaysheets[month \o <<"_">> \o year])
             = Untimed(primaryPaysheetData(OnceRecords, month, year, 0))
        /\ DOMAIN fbSlips = OnceSlipKeys
        /\ \A k \in DOMAIN fbSlips : Untimed(fbSlips[k]) = OnceSlip(k)

\* the file of two teachers has been imported a second time, later than
\* the first
C24_Witness ==
    /\ calls = MaxImports + 1
    /\ PrimarySuccess
    /\ Cardinality(DOMAIN fbSlips) = 2
    /\ fbPaysheets[month \o <<"_">> \o year].importDate > 5

----------------------------------------------------------------------------
(* C25 *)

\* C25: after an import that reports success on the primary store, for
\* every record r of the returned data Firebase holds a slip under
\* salarySlips/{r.id}, and the number of distinct slips written equals the
\* number of returned records.
C25_SlipPerReturnedRecord ==
    (calls = 1 /\ PrimarySuccess) =>
        /\ \A i \in 1..Len(Result.data.list) :
             Result.data.list[i].id \in DOMAIN fbSlips
        /\ Cardinality(DOMAIN fbSlips) = Len(Result.data.list)

----------------------------------------------------------------------------
(* C26 *)

\* the identifiers of the records of a stored batch
StoredIds(batch) == { batch.records[k].id : k \in DOMAIN batch.records }

\* C26: after every import that returns success = true, on the primary
\* path as on the fallback path, localStorage holds under
\* paysheet_{month}_{year} a batch that contains every record of the
\* returned list and whose summary.totalRecords is the length of the list.
C26_LocalCopyComplete ==
    (Done /\ Result.success) =>
        /\ BatchKey \in DOMAIN localStorage
        /\ \A i \in 1..Len(Result.data.list) :
             Result.data.list[i].id \in StoredIds(localStorage[BatchKey])
        /\ localStorage[BatchKey].summary.totalRecords = Len(Result.data.list)

\* the same on the fallback path alone
FallbackCopyComplete ==
    (Done /\ Result.success /\ ~PrimarySuccess) => C26_LocalCopyComplete

----------------------------------------------------------------------------
(* C27 *)

\* the values of sample row k the claim names
SampleValue(k, column) ==
    LET c == CHOOSE j \in 1..Len(sampleHeaders) : sampleHeaders[j] = column
    IN  sampleData[k][c]

\* C27: parsing getSampleCSVFormat() with parseCSV and normalising it gives
\* two records whose teacherId, teacherName, basicSalary, grossSalary,
\* totalDeductions and netPay are the values of the two sample rows.
C27_SampleRoundTrip ==
    (normOut # <<>> /\ file.text = getSampleCSVFormat) =>
        /\ Len(normOut[1]) = 2
        /\ \A k \in 1..2 :
             /\ normOut[1][k].teacherId = SampleValue(k, <<"T","e","a","c","h","e","r"," ","I","D">>)
             /\ normOut[1][k].teacherName = SampleValue(k, <<"T","e","a","c","h","e","r"," ","N","a","m","e">>)
             /\ normOut[1][k].basicSalary
                  = DecimalOf(SampleValue(k, <<"B","a","s","i","c"," ","S","a","l","a","r","y">>))
             /\ normOut[1][k].grossSalary
                  = DecimalOf(SampleValue(k, <<"G","r","o","s","s"," ","S","a","l","a","r","y">>))
             /\ normOut[1][k].totalDeductions
                  = DecimalOf(SampleValue(k, <<"T","o","t","a","l"," ","D","e","d","u","c","t","i","o","n","s">>))
             /\ normOut[1][k].netPay = DecimalOf(SampleValue(k, <<"N","e","t"," ","P","a","y">>))

\* the part of the sample the column map does carry over
SampleMappedPart ==
    (normOut # <<>> /\ file.text = getSampleCSVFormat) =>
        /\ Len(normOut[1]) = 2
        /\ \A k \in 1..2 :
             /\ normOut[1][k].teacherId = SampleValue(k, <<"T","e","a","c","h","e","r"," ","I","D">>)
             /\ normOut[1][k].teacherName = <<>>
             /\ normOut[1][k].basicSalary = Num(0)
             /\ normOut[1][k].grossSalary = Num(0)
             /\ normOut[1][k].totalDeductions
                  = DecimalOf(SampleValue(k, <<"T","o","t","a","l"," ","D","e","d","u","c","t","i","o","n","s">>))
             /\ normOut[1][k].netPay = DecimalOf(SampleValue(k, <<"N","e","t"," ","P","a","y">>))


----------------------------------------------------------------------------
(* C28 *)

\* the registry keys under which a listener is stored or attached
RegistryKeys == DOMAIN listeners \cup { a.key : a \in attached }

\* C28: after any sequence of getTeachers, getSalarySlips,
\* getMonthlyPaysheet, getPaysheetData and onDataChange registrations, at
\* most one listener is attached per registry key, and it is the one the
\* registry holds; after cleanup() the registry is empty and no listener
\* registered through these operations is attached to the database.
C28_OneListenerPerKey ==
    /\ \A k \in RegistryKeys :
         /\ Cardinality({ a \in attached : a.key = k }) <= 1
         /\ \A a \in attached : a.key = k => (k \in DOMAIN listeners /\ listeners[k] = a.fn)
    /\ opOut.op = "cleanup" => (listeners = EmptyStore /\ attached = {})

\* the part of C28 that holds: the listener the registry holds for a key
\* is attached, and cleanup() empties the registry
RegistryHoldsAttached ==
    /\ \A k \in DOMAIN listeners :
         \E a \in attached : a.key = k /\ a.fn = listeners[k]
    /\ opOut.op = "cleanup" => listeners = EmptyStore

----------------------------------------------------------------------------
(* C29 *)

\* C29: a data operation called on an adapter that is not initialized fails
\* with the not-initialized error of its class and has issued no request.
C29_NoRequestBeforeInitialize ==
    (opOut.class \in {"GoogleSheetsDB", "FirebaseDB", "TeacherPayAPI"}
       /\ opOut.op # "cleanup" /\ ~opOut.initialized) =>
        /\ opOut.requests = <<>>
        /\ opOut.threw = (CASE opOut.class = "GoogleSheetsDB" -> SheetsNotInitialized
                            [] opOut.class = "FirebaseDB" -> FirebaseNotInitialized
                            [] OTHER -> ApiNotInitialized)

\* the part of C29 that holds: FirebaseDB.addTeacher and
\* TeacherPayAPI.getTeachers throw before any request, and
\* GoogleSheetsDB.addTeacher never appends a row, when the adapter is not
\* initialized
GuardedOperationsIssueNothing ==
    /\ (opOut.class \in {"FirebaseDB", "TeacherPayAPI"} /\ ~opOut.initialized) =>
         (opOut.requests = <<>> /\ opOut.threw # "")
    /\ (opOut.class = "GoogleSheetsDB" /\ ~opOut.initialized) =>
         /\ opOut.threw = SheetsNotInitialized
         /\ \A i \in 1..Len(opOut.requests) : opOut.requests[i].method # "POST"
              \/ opOut.requests[i].target = <<":","b","a","t","c","h","U","p","d","a","t","e">>

----------------------------------------------------------------------------
(* C30 *)

\* the row was appended by addTeacher for the teacher with this id
RowOf(row, id) ==
    /\ row # <<>>
    /\ \/ StrictEq(row[1], id)
       \/ row[1].kind = "array" /\ row[1].v # <<>> /\ StrictEq(row[1].v[1], id)

\* the rows of the Teachers sheet that addTeacher appended for this id
RowsOf(id) ==
    { i \in 2..Len(teachersSheet.rows) : RowOf(teachersSheet.rows[i], id) }

\* the header row is the one addTeachersHeaders writes
CreatedByAdapter ==
    /\ teachersSheet.exists
    /\ teachersSheet.rows # <<>>
    /\ teachersSheet.rows[1] = TeachersHeaders

\* the cell of the Status column of a row addTeacher appended
StatusOf(row) ==
    IF row[1].kind = "array" THEN cellAt(row[1].v, 6) ELSE cellAt(row, 6)

\* C30: on an initialized GoogleSheetsDB whose Teachers sheet carries the
\* headers of addTeachersHeaders, updateTeacherStatus(id, status, approvedBy)
\* that ends without an error returns true and leaves the new status in the
\* row when addTeacher appended a row for id, and returns false only when no
\* row has that id.
C30_StatusUpdateFindsRow ==
    (opOut.class = "GoogleSheetsDB" /\ opOut.op = "updateTeacherStatus"
       /\ opOut.initialized /\ opOut.threw = "" /\ CreatedByAdapter) =>
        /\ RowsOf(opOut.args[1]) # {} =>
             /\ opOut.returned = "true"
             /\ \E i \in RowsOf(opOut.args[1]) :
                  StrictEq(StatusOf(teachersSheet.rows[i]), opOut.args[2])
        /\ opOut.returned = "false" => RowsOf(opOut.args[1]) = {}

\* what the code does on such a sheet: no header is 'id', so no row is
\* found, nothing is written and false is returned
StatusUpdateFindsNothing ==
    (opOut.class = "GoogleSheetsDB" /\ opOut.op = "updateTeacherStatus"
       /\ opOut.initialized /\ opOut.threw = "" /\ CreatedByAdapter) =>
        /\ opOut.returned = "false"
        /\ Len(opOut.requests) = 1
====
